---- MODULE Spec2Model ----
(***************************************************************************)
(* Model of the infra-support-copilot chat backend:                        *)
(*   app/services/decide_tool.py        DecideTool (orchestrator)          *)
(*   app/services/sql_query_service.py  SQLQueryService (relational)       *)
(*   app/services/rag_chat_service.py   RagChatService (document search)   *)
(*   app/services/log_analytics_service.py LogAnalyticsService             *)
(* Python str values are TLA+ strings; str methods are modelled by what    *)
(* they compute, character by character.                                   *)
(***************************************************************************)
EXTENDS Integers, Sequences, FiniteSets, TLC

VARIABLES
    history,        \* the request's messages: Seq([role, content])
    pc,             \* position of the request in the endpoint and in
                    \* DecideTool.get_chat_completion
    attempt,        \* loop variable of _retry_openai_call for the call in progress
    llm_calls,      \* attempts of the model call in progress or last finished:
                    \* Seq([site, outcome]), one entry per chat.completions.create
    sleeps,         \* the asyncio.sleep(delay) calls of that model call, milliseconds
    n_tool_calls,   \* len(msg.tool_calls) of the tool-selection response
    tool_calls,     \* the tool calls the for-loop has taken from msg.tool_calls
    invoked,        \* the adapter calls made, in call order: Seq([name, raised])
    fetched,        \* what each successful adapter call returned, in call order
    executed_sql,   \* statements handed to _execute_sql, in order
    sources_parts,  \* evidence accumulated by _accumulate
    citations,      \* the local citations list, once built
    prompt_sources, \* the sources block formatted into the last grounding prompt
    response,       \* the dict returned by get_chat_completion, or None
    error,          \* the exception leaving get_chat_completion, or None
    sql_text,       \* input string of _is_safe_sql (gate specification)
    sql_verdict,    \* its outcome: "unset", "True", "False" or the exception raised
    entry,          \* the module whose chat_completion endpoint serves the request
    reply,          \* what the endpoint returned to the client, or None
    arg,            \* function-level specification: the function applied and its arguments
    result,         \* function-level specification: what the function returned or raised
    frames,         \* concurrency specification: the locals of each request in flight
    prompts         \* the prompts and adapter queries built for the request: what each reads

vars == <<history, pc, attempt, llm_calls, sleeps, n_tool_calls, tool_calls,
          invoked, fetched, executed_sql, sources_parts, citations, prompt_sources, response,
          error, sql_text, sql_verdict, entry, reply, arg, result, frames, prompts>>

None == "None"

(***************************************************************************)
(* Python str operations                                                   *)
(***************************************************************************)
Min(a, b) == IF a <= b THEN a ELSE b

Max(a, b) == IF a >= b THEN a ELSE b

\* s[i:] for 0 <= i (Python slice, 0-based start)
SliceFrom(s, i) == IF i >= Len(s) THEN "" ELSE SubSeq(s, i + 1, Len(s))

\* s.startswith(p)
StartsWith(s, p) == Len(p) <= Len(s) /\ SubSeq(s, 1, Len(p)) = p

\* s.find(k) + 1 restricted to positions >= from (0 when absent)
FindFrom(s, k, from) ==
    LET hits == { i \in from..(Len(s) - Len(k) + 1) : SubSeq(s, i, i + Len(k) - 1) = k }
    IN  IF hits = {} THEN 0 ELSE CHOOSE i \in hits : \A j \in hits : i <= j

\* k in s
Contains(s, k) == FindFrom(s, k, 1) > 0

UpperChars == "ABCDEFGHIJKLMNOPQRSTUVWXYZ"

LowerChars == "abcdefghijklmnopqrstuvwxyz"

UpperSet == { SubSeq(UpperChars, i, i) : i \in 1..26 }

LowerSet == { SubSeq(LowerChars, i, i) : i \in 1..26 }

LowerOf == [c \in UpperSet |-> LET i == FindFrom(UpperChars, c, 1) IN SubSeq(LowerChars, i, i)]

UpperOf == [c \in LowerSet |-> LET i == FindFrom(LowerChars, c, 1) IN SubSeq(UpperChars, i, i)]

LowerChar(c) == IF c \in UpperSet THEN LowerOf[c] ELSE c

UpperChar(c) == IF c \in LowerSet THEN UpperOf[c] ELSE c

\* s.lower()
RECURSIVE Lower(_)
Lower(s) ==
    IF s = "" THEN ""
    ELSE IF Len(s) = 1 THEN LowerChar(s)
    ELSE Lower(SubSeq(s, 1, Len(s) \div 2)) \o Lower(SubSeq(s, Len(s) \div 2 + 1, Len(s)))

\* s.upper()
RECURSIVE Upper(_)
Upper(s) ==
    IF s = "" THEN ""
    ELSE IF Len(s) = 1 THEN UpperChar(s)
    ELSE Upper(SubSeq(s, 1, Len(s) \div 2)) \o Upper(SubSeq(s, Len(s) \div 2 + 1, Len(s)))

\* s.split(sep): the pieces between non-overlapping occurrences of sep
RECURSIVE Split(_, _)
Split(s, sep) ==
    LET i == FindFrom(s, sep, 1)
    IN  IF i = 0 THEN <<s>>
        ELSE <<SubSeq(s, 1, i - 1)>> \o Split(SliceFrom(s, i + Len(sep) - 1), sep)

\* s.split(sep, 1)
SplitOnce(s, sep) ==
    LET i == FindFrom(s, sep, 1)
    IN  IF i = 0 THEN <<s>>
        ELSE <<SubSeq(s, 1, i - 1), SliceFrom(s, i + Len(sep) - 1)>>

\* sep.join(parts)
RECURSIVE Join(_, _)
Join(sep, parts) ==
    IF parts = <<>> THEN ""
    ELSE IF Len(parts) = 1 THEN parts[1]
    ELSE parts[1] \o sep \o Join(sep, Tail(parts))

Whitespace == " \t\n\r"

\* s.lstrip(chars) / s.rstrip(chars) / s.strip(chars)
RECURSIVE LStripChars(_, _)
LStripChars(s, chars) ==
    IF s /= "" /\ Contains(chars, SubSeq(s, 1, 1)) THEN LStripChars(Tail(s), chars) ELSE s

RECURSIVE RStripChars(_, _)
RStripChars(s, chars) ==
    IF s /= "" /\ Contains(chars, SubSeq(s, Len(s), Len(s)))
    THEN RStripChars(SubSeq(s, 1, Len(s) - 1), chars) ELSE s

StripChars(s, chars) == RStripChars(LStripChars(s, chars), chars)

\* s.strip()
Strip(s) == StripChars(s, Whitespace)

\* length of the leading run of non-whitespace characters of s
RECURSIVE WordLen(_)
WordLen(s) ==
    IF s = "" \/ Contains(Whitespace, SubSeq(s, 1, 1)) THEN 0 ELSE 1 + WordLen(Tail(s))

\* s.split(): the whitespace-separated words of s
RECURSIVE SplitWs(_)
SplitWs(s) ==
    LET t == LStripChars(s, Whitespace)
    IN  IF t = "" THEN <<>>
        ELSE <<SubSeq(t, 1, WordLen(t))>> \o SplitWs(SliceFrom(t, WordLen(t)))

Digits == "0123456789"

\* str(n) for n >= 0
RECURSIVE Str(_)
Str(n) ==
    IF n < 10 THEN SubSeq(Digits, n + 1, n + 1)
    ELSE Str(n \div 10) \o SubSeq(Digits, (n % 10) + 1, (n % 10) + 1)

(***************************************************************************)
(* SQLQueryService: safety gate                                            *)
(***************************************************************************)
_allowed_tables == {"virtual_machines", "network_interfaces", "installed_software"}

_default_row_limit == 50

forbidden == <<"update", "delete", "insert", "merge", "drop", "alter", "truncate">>

\* the segments the gate inspects: parts[1:] of the split on " from ", then on " join "
GateSegments(lowered) ==
    Tail(Split(lowered, " from ")) \o Tail(Split(lowered, " join "))

\* seg.strip().split()[0].strip('[];,'), with the dbo. prefix dropped
IdentAfter(seg) ==
    LET ident == StripChars(SplitWs(Strip(seg))[1], "[];,")
    IN  IF StartsWith(ident, "dbo.") THEN SliceFrom(ident, 4) ELSE ident

\* the for-loops over the segments: the first segment that raises or rejects decides
RECURSIVE ScanSegments(_)
ScanSegments(segs) ==
    IF segs = <<>> THEN "True"
    ELSE IF SplitWs(Strip(segs[1])) = <<>> THEN "IndexError"
    ELSE IF IdentAfter(segs[1]) /= "" /\ IdentAfter(segs[1]) \notin _allowed_tables
         THEN "False"
    ELSE ScanSegments(Tail(segs))

\* _is_safe_sql(sql): "True", "False", or the exception it raises
_is_safe_sql(sql) ==
    LET lowered == Lower(sql)
    IN  IF \E i \in 1..Len(forbidden) : Contains(lowered, forbidden[i]) THEN "False"
        ELSE ScanSegments(GateSegments(lowered))

(***************************************************************************)
(* Inputs of the gate: a statement head followed by up to MaxClauses       *)
(* table clauses.                                                          *)
(***************************************************************************)
MaxClauses == 2

SqlHeads ==
    { "", "select *", "SELECT name, created_at", "select updated_at",
      "CREATE TABLE x", "DROP TABLE x", "UPDATE x SET y = 1" }

SqlClauses ==
    { " from dbo.virtual_machines", " FROM network_interfaces;", " from secrets",
      "\nfrom secrets", " from\tsecrets", " from  installed_software",
      " JOIN dbo.secrets", " join installed_software", "\nLEFT OUTER JOIN\nsecrets",
      " from ", " from [virtual_machines]", " from dbo.virtual_machines vm" }

RECURSIVE ClauseStrings(_)
ClauseStrings(n) ==
    IF n = 0 THEN {""}
    ELSE LET shorter == ClauseStrings(n - 1)
         IN  shorter \cup { t \o c : t \in shorter, c \in SqlClauses }

SqlInputs == { h \o t : h \in SqlHeads, t \in ClauseStrings(MaxClauses) }

(***************************************************************************)
(* Outcomes of the external calls.  A model call answers with text (or     *)
(* tool calls) or raises; a store answers with rows/documents or raises.   *)
(* A row is an ordered dict: a sequence of <<column, str(value)>> pairs.   *)
(***************************************************************************)
RateLimitError ==
    [type |-> "RateLimitError",
     msg |-> "Error code: 429 - Rate limit is exceeded. Try again in 2 seconds."]

APIError == [type |-> "APIConnectionError", msg |-> "Connection error."]

LlmErrors == {RateLimitError, APIError}

NoError == [type |-> "None", msg |-> ""]

\* one entry of llm_calls
\* s written 2^k times
RECURSIVE Doubled(_, _)
Doubled(s, k) == IF k = 0 THEN s ELSE Doubled(s \o s, k - 1)

\* a text of 20480 characters, longer than the orchestrator's budget
\* for the sources block (a text column, a document)
LongText == Doubled("0123456789", 11)

LlmCall(site, outcome) == [site |-> site, outcome |-> outcome]

\* r.get(c, "")
RowGet(r, c) ==
    IF \E i \in 1..Len(r) : r[i][1] = c
    THEN r[CHOOSE i \in 1..Len(r) : r[i][1] = c][2]
    ELSE ""

\* list(r.keys())
RowKeys(r) == [i \in 1..Len(r) |-> r[i][1]]

ColumnRow(t, c) == << <<"TABLE_NAME", t>>, <<"COLUMN_NAME", c>> >>

VmRow(n, l) == << <<"name", n>>, <<"location", l>> >>

NotesRow(n) == << <<"name", n>>, <<"notes", LongText>> >>

DbOutcomes ==
    { [ok |-> FALSE, rows |-> <<>>],
      [ok |-> TRUE, rows |-> <<>>],
      [ok |-> TRUE, rows |-> <<ColumnRow("virtual_machines", "name")>>],
      [ok |-> TRUE, rows |-> <<VmRow("vm-01", "japaneast"), VmRow("vm-02", "eastus")>>],
      [ok |-> TRUE, rows |-> <<NotesRow("vm-03")>>] }

\* SQL text the model may produce for _generate_sql
GeneratedSql ==
    { "SELECT vm.name\nFROM dbo.virtual_machines AS vm\nORDER BY vm.name;",
      "SELECT name FROM dbo.virtual_machines",
      "SELECT * FROM secrets",
      "DROP TABLE dbo.virtual_machines",
      "SELECT 1 from  from dbo.virtual_machines" }

GenOutcomes ==
    { [ok |-> FALSE, exc |-> e, text |-> ""] : e \in LlmErrors }
    \cup { [ok |-> TRUE, exc |-> NoError, text |-> t] : t \in GeneratedSql }

(***************************************************************************)
(* SQLQueryService                                                         *)
(***************************************************************************)
\* _rows_to_sources(rows)
_rows_to_sources(rows) ==
    IF rows = <<>> THEN "(no rows)"
    ELSE LET cols == RowKeys(rows[1])
             header == Join(" | ", cols)
             separator == Join(" | ", [i \in 1..Len(cols) |-> "---"])
             line(r) == Join(" | ", [i \in 1..Len(cols) |-> RowGet(r, cols[i])])
         IN  Join("\n", <<header, separator>> \o [k \in 1..Len(rows) |-> line(rows[k])])

\* the max_chars parameter of _rows_to_sources, which nothing passes
rows_max_chars == 4000

TruncatedMarker == "... (truncated) ..."

RECURSIVE SumLen(_)
SumLen(lines) == IF lines = <<>> THEN 0 ELSE Len(lines[1]) + SumLen(Tail(lines))

\* the for-loop of sql_query_auto_service's _rows_to_sources: append the row's
\* line, then stop with the marker once the lines exceed max_chars
RECURSIVE AutoLines(_, _, _)
AutoLines(rows, cols, lines) ==
    IF rows = <<>> THEN lines
    ELSE LET appended ==
                Append(lines, Join(" | ", [i \in 1..Len(cols) |-> RowGet(rows[1], cols[i])]))
         IN  IF SumLen(appended) > rows_max_chars
             THEN Append(appended, TruncatedMarker)
             ELSE AutoLines(Tail(rows), cols, appended)

\* _rows_to_sources(rows) of sql_query_auto_service.py
_rows_to_sources_auto(rows) ==
    IF rows = <<>> THEN "(no rows)"
    ELSE LET cols == RowKeys(rows[1])
         IN  Join("\n", AutoLines(rows, cols, <<Join(" | ", cols)>>))

\* what an adapter call did: raised or returned items; the model calls it
\* issued and the statements it handed to _execute_sql
AdapterReturn(items, llm, sql) ==
    [raised |-> FALSE, exc |-> NoError, items |-> items, llm |-> llm, sql |-> sql]

AdapterRaise(exc, llm, sql) ==
    [raised |-> TRUE, exc |-> exc, items |-> <<>>, llm |-> llm, sql |-> sql]

IndexError == [type |-> "IndexError", msg |-> "list index out of range"]

ValueError == [type |-> "ValueError", msg |-> "too many values to unpack (expected 2)"]

DbError(sql) ==
    [type |-> "RuntimeError",
     msg |-> "SQL execution error: ProgrammingError: The database has reached its size quota"
             \o ". Query: " \o sql]

\* the RuntimeError(detailed_error) of the outer handler: the first two detail
\* lines carry the type and the text of the exception caught
SqlServiceError(e) ==
    [type |-> "RuntimeError",
     msg |-> "SQL Service Error Details:\n- error_type: " \o e.type
             \o "\n- error_message: " \o e.msg]

Item(title, content) == [title |-> title, content |-> content]

IntrospectionSql(quoted_items) ==
    "\n                    SELECT TABLE_NAME, COLUMN_NAME"
    \o "\n                    FROM INFORMATION_SCHEMA.COLUMNS"
    \o "\n                    WHERE TABLE_NAME IN (" \o Join(",", quoted_items) \o ")"
    \o "\n                    ORDER BY TABLE_NAME, ORDINAL_POSITION;"
    \o "\n                "

FallbackSql ==
    "SELECT TOP " \o Str(_default_row_limit)
    \o " name, location, vm_size, power_state FROM dbo.virtual_machines ORDER BY name;"

\* the ;;SQL;; branch
SqlColumnsBranch(effective_query, db) ==
    LET pieces == SplitOnce(effective_query, ";;SQL;;")
    IN  IF Len(pieces) < 2 THEN AdapterRaise(SqlServiceError(IndexError), <<>>, <<>>)
        ELSE LET items == Split(pieces[2], ",")
                 quoted_items == [i \in 1..Len(items) |->
                                    "'" \o Strip(SliceFrom(items[i], 4)) \o "'"]
                 sql == IntrospectionSql(quoted_items)
             IN  IF ~db.ok THEN AdapterRaise(SqlServiceError(DbError(sql)), <<>>, <<sql>>)
                 ELSE AdapterReturn(
                        <<Item("COLUMNS", ";;COLUMNS;;" \o _rows_to_sources(db.rows))>>,
                        <<>>, <<sql>>)

SqlExecuteBranch_NoFallback(effective_query, gen, db) ==
    LET pieces == Split(effective_query, "|||")
        call == <<LlmCall("SQLQueryService._generate_sql",
                          IF gen.ok THEN "ok" ELSE gen.exc.type)>>
    IN  IF Len(pieces) /= 2 THEN AdapterRaise(SqlServiceError(ValueError), <<>>, <<>>)
        ELSE IF ~gen.ok THEN AdapterRaise(SqlServiceError(gen.exc), call, <<>>)
        ELSE LET sql == Strip(gen.text)
             IN  IF _is_safe_sql(sql) = "IndexError"
                 THEN AdapterRaise(SqlServiceError(IndexError), call, <<>>)
                 ELSE IF ~db.ok THEN AdapterRaise(SqlServiceError(DbError(sql)), call, <<sql>>)
                 ELSE AdapterReturn(
                        <<Item("SQL Query", "## SQL Query:\n" \o sql
                                 \o "\n\n## Results:\n" \o _rows_to_sources(db.rows))>>,
                        call, <<sql>>)

\* the ;;EXECUTE;; branch
SqlExecuteBranch(effective_query, gen, db) ==
    LET pieces == Split(effective_query, "|||")
        call == <<LlmCall("SQLQueryService._generate_sql",
                          IF gen.ok THEN "ok" ELSE gen.exc.type)>>
    IN  IF Len(pieces) /= 2 THEN AdapterRaise(SqlServiceError(ValueError), <<>>, <<>>)
        ELSE IF ~gen.ok THEN AdapterRaise(SqlServiceError(gen.exc), call, <<>>)
        ELSE LET generated == Strip(gen.text)
                 verdict == _is_safe_sql(generated)
                 sql == IF verdict = "False" THEN FallbackSql ELSE generated
             IN  IF verdict = "IndexError" THEN AdapterRaise(SqlServiceError(IndexError), call, <<>>)
                 ELSE IF ~db.ok THEN AdapterRaise(SqlServiceError(DbError(sql)), call, <<sql>>)
                 ELSE AdapterReturn(
                        <<Item("SQL Query", "## SQL Query:\n" \o sql
                                 \o "\n\n## Results:\n" \o _rows_to_sources(db.rows))>>,
                        call, <<sql>>)

\* the tables are joined in the iteration order of a set; one order is shown
SelectableContent ==
    ";;SELECTABLE;;" \o "dbo.virtual_machines,dbo.network_interfaces,dbo.installed_software"

SqlGetChatCompletion_NoColumnsBranch(effective_query, gen, db) ==
    IF StartsWith(Upper(effective_query), ";;EXECUTE;;")
    THEN SqlExecuteBranch(effective_query, gen, db)
    ELSE AdapterReturn(<<Item("SELECTABLE", SelectableContent)>>, <<>>, <<>>)

\* SQLQueryService.get_chat_completion(effective_query): every exception inside
\* is re-raised as RuntimeError
SqlGetChatCompletion(effective_query, gen, db) ==
    IF StartsWith(Upper(effective_query), ";;SQL;;")
    THEN SqlColumnsBranch(effective_query, db)
    ELSE IF StartsWith(Upper(effective_query), ";;EXECUTE;;")
    THEN SqlExecuteBranch(effective_query, gen, db)
    ELSE AdapterReturn(<<Item("SELECTABLE", SelectableContent)>>, <<>>, <<>>)

(***************************************************************************)
(* RagChatService                                                          *)
(***************************************************************************)
\* json.loads of the index-selection answers the model may give: parsed is the
\* dict as a sequence of <<key, value>> pairs; ok = FALSE when loads raises
JsonAnswers ==
    { [text |-> "{\"inventories\": true, \"incidents\": true}", ok |-> TRUE,
       parsed |-> << <<"inventories", TRUE>>, <<"incidents", TRUE>> >>],
      [text |-> "{\"inventories\": true, \"incidents\": false}", ok |-> TRUE,
       parsed |-> << <<"inventories", TRUE>>, <<"incidents", FALSE>> >>],
      [text |-> "{\"inventories\": false, \"incidents\": true}", ok |-> TRUE,
       parsed |-> << <<"inventories", FALSE>>, <<"incidents", TRUE>> >>],
      [text |-> "{\"inventories\": false, \"incidents\": false}", ok |-> TRUE,
       parsed |-> << <<"inventories", FALSE>>, <<"incidents", FALSE>> >>],
      [text |-> "{\"incidents\": true}", ok |-> TRUE,
       parsed |-> << <<"incidents", TRUE>> >>],
      [text |-> "{}", ok |-> TRUE, parsed |-> <<>>],
      [text |-> "Sure! I would search both.", ok |-> FALSE, parsed |-> <<>>] }

RagSelOutcomes ==
    { [ok |-> FALSE, exc |-> e, json |-> CHOOSE j \in JsonAnswers : ~j.ok] : e \in LlmErrors }
    \cup { [ok |-> TRUE, exc |-> NoError, json |-> j] : j \in JsonAnswers }

\* selection.get(key, default)
DictGet(d, key, default) ==
    IF \E i \in 1..Len(d) : d[i][1] = key
    THEN d[CHOOSE i \in 1..Len(d) : d[i][1] = key][2]
    ELSE default

\* _select_indexes: <<search_inventories, search_incidents>>
_select_indexes(sel) ==
    IF sel.ok /\ sel.json.ok
    THEN <<DictGet(sel.json.parsed, "inventories", FALSE),
           DictGet(sel.json.parsed, "incidents", FALSE)>>
    ELSE <<TRUE, TRUE>>

\* the documents matching a query in each index, best first (a document is
\* its "content" field; "" stands for a document with no content)
InventoriesIndex == <<"inv-a", "inv-b">>

IncidentsIndex == <<"inc-a", "", "inc-c " \o LongText, "inc-d">>

top_k == 3

Search_AllMatches(index, n, top) == SubSeq(index, 1, Min(n, Len(index)))

\* SearchClient.search(search_text, top, select): the first `top` of the n matches
Search(index, n, top) == SubSeq(index, 1, Min(Min(n, Len(index)), top))

\* a search either raises or finds n matching documents
SearchOutcomes(index) ==
    { [ok |-> FALSE, n |-> 0] } \cup { [ok |-> TRUE, n |-> n] : n \in 0..Len(index) }

\* _accumulate(name, results): one item per document with non-empty content
RECURSIVE RagAccumulate(_, _)
RagAccumulate(name, results) ==
    IF results = <<>> THEN <<>>
    ELSE (IF results[1] /= "" THEN <<Item(name, results[1])>> ELSE <<>>)
         \o RagAccumulate(name, Tail(results))

SearchError == [type |-> "HttpResponseError", msg |-> "search request failed"]

\* RagChatService.get_chat_completion(effective_query); fault: an exception
\* that reaches the outer handler, which re-raises it
RagGetChatCompletion(sel, inv, inc, fault) ==
    LET chosen == _select_indexes(sel)
        call == <<LlmCall("RagChatService._select_indexes",
                          IF sel.ok THEN "ok" ELSE sel.exc.type)>>
        inv_items == IF chosen[1] /\ inv.ok
                     THEN RagAccumulate("Inventories", Search(InventoriesIndex, inv.n, 1))
                     ELSE <<>>
        inc_items == IF chosen[2] /\ inc.ok
                     THEN RagAccumulate("Incident", Search(IncidentsIndex, inc.n, top_k))
                     ELSE <<>>
    IN  IF fault THEN AdapterRaise(SearchError, call, <<>>)
        ELSE AdapterReturn(inv_items \o inc_items, call, <<>>)

(***************************************************************************)
(* LogAnalyticsService                                                     *)
(***************************************************************************)
max_cols == 12

max_rows == 50

max_cell_chars == 200

\* a result table of nrows rows and ncols columns
LogRow(k, ncols) == [i \in 1..ncols |-> <<"c" \o Str(i), "v" \o Str(k) \o "." \o Str(i)>>]

LogRows(nrows, ncols) == [k \in 1..nrows |-> LogRow(k, ncols)]

\* the one-character ellipsis the code appends is written "~"
TrimCell(val) ==
    IF Len(val) > max_cell_chars THEN SubSeq(val, 1, max_cell_chars) \o "~" ELSE val

rows_to_markdown_table_OneRowMore(rows) ==
    IF rows = <<>> THEN "(no rows)"
    ELSE LET cols_all == RowKeys(rows[1])
             cols == SubSeq(cols_all, 1, Min(Len(cols_all), max_cols))
             header == Join(" | ", cols)
             separator == Join(" | ", [i \in 1..Len(cols) |-> "---"])
             line(r) == Join(" | ", [i \in 1..Len(cols) |-> TrimCell(RowGet(r, cols[i]))])
             shown == Min(Len(rows), max_rows + 1)
             lines == <<header, separator>> \o [k \in 1..shown |-> line(rows[k])]
             notice ==
                (IF Len(cols_all) > max_cols
                 THEN <<"columns " \o Str(Len(cols_all) - max_cols) \o " more hidden">>
                 ELSE <<>>)
                \o (IF Len(rows) > max_rows
                    THEN <<"rows " \o Str(Len(rows) - max_rows) \o " more hidden">>
                    ELSE <<>>)
         IN  Join("\n", lines \o (IF notice /= <<>>
                                  THEN <<"", "(truncated: " \o Join("; ", notice) \o ")">>
                                  ELSE <<>>))

\* rows_to_markdown_table(rows)
rows_to_markdown_table(rows) ==
    IF rows = <<>> THEN "(no rows)"
    ELSE LET cols_all == RowKeys(rows[1])
             cols == SubSeq(cols_all, 1, Min(Len(cols_all), max_cols))
             header == Join(" | ", cols)
             separator == Join(" | ", [i \in 1..Len(cols) |-> "---"])
             line(r) == Join(" | ", [i \in 1..Len(cols) |-> TrimCell(RowGet(r, cols[i]))])
             shown == Min(Len(rows), max_rows)
             lines == <<header, separator>> \o [k \in 1..shown |-> line(rows[k])]
             notice ==
                (IF Len(cols_all) > max_cols
                 THEN <<"columns " \o Str(Len(cols_all) - max_cols) \o " more hidden">>
                 ELSE <<>>)
                \o (IF Len(rows) > max_rows
                    THEN <<"rows " \o Str(Len(rows) - max_rows) \o " more hidden">>
                    ELSE <<>>)
         IN  Join("\n", lines \o (IF notice /= <<>>
                                  THEN <<"", "(truncated: " \o Join("; ", notice) \o ")">>
                                  ELSE <<>>))

\* the function names of the tools schema, in order
LogToolNames ==
    << "self.query_appservice_audit_logs_errors",
       "self.query_appservice_console_logs_errors",
       "self.query_appservice_http_logs_errors",
       "self.query_appservice_platform_logs_errors",
       "self.query_azure_diagnostics_cognitive_services",
       "self.query_azure_diagnostics_ai_search",
       "self.query_azure_diagnostics_sql",
       "self.query_azure_metrics",
       "self.query_useage" >>

\* the if/elif chain over fname: <<fname, title, heading>> per branch
LogBranches ==
    << <<"self.query_appservice_audit_logs_errors", "Log Analytics (AppServiceAuditLogs)", "## Errors:\n">>,
       <<"self.query_appservice_console_logs_errors", "Log Analytics (AppServiceConsoleLogs)", "## Errors:\n">>,
       <<"self.query_appservice_http_logs_errors", "Log Analytics (AppServiceHttpLogs)", "## Errors:\n">>,
       <<"self.query_appservice_platform_logs_errors", "Log Analytics (AppServicePlatformLogs)", "## Errors:\n">>,
       <<"self.query_azure_diagnostics_cognitive_services", "Log Analytics (AzureDiagnostics)", "## Logs:\n">>,
       <<"self.query_azure_diagnostics_ai_search", "Log Analytics (AzureDiagnostics)", "## Logs:\n">>,
       <<"self.query_azure_diagnostics_sql", "Log Analytics (AzureDiagnostics)", "## Logs:\n">>,
       <<"self.query_azure_metrics", "Log Analytics (AzureMetrics)", "## Logs:\n">>,
       <<"self.query_usage", "Log Analytics (Usage)", "## Logs:\n">> >>

\* LogAnalyticsService.query: raises, or returns the rows of the first table
LogQueryOutcomes ==
    { [ok |-> FALSE, nrows |-> 0, ncols |-> 0],
      [ok |-> TRUE, nrows |-> 0, ncols |-> 0],
      [ok |-> TRUE, nrows |-> 1, ncols |-> 2] }

\* one pass of the loop body over a tool call named fname, its query answering q
LogDispatch(fname, q) ==
    IF \E b \in 1..Len(LogBranches) : LogBranches[b][1] = fname
    THEN LET b == CHOOSE b \in 1..Len(LogBranches) : LogBranches[b][1] = fname
         IN  IF q.ok
             THEN <<Item(LogBranches[b][2],
                         LogBranches[b][3]
                         \o rows_to_markdown_table(LogRows(q.nrows, q.ncols)) \o "\n")>>
             ELSE <<>>
    ELSE <<>>

RECURSIVE LogLoop(_, _)
LogLoop(calls, qs) ==
    IF calls = <<>> THEN <<>>
    ELSE LogDispatch(calls[1], qs[1]) \o LogLoop(Tail(calls), Tail(qs))

\* LogAnalyticsService.get_chat_completion(effective_query): sel is the answer
\* of the sub-action selection call, qs the answers of the queries it leads to
LogGetChatCompletion(sel, qs) ==
    LET call == <<LlmCall("LogAnalyticsService.get_chat_completion",
                          IF sel.ok THEN "ok" ELSE sel.exc.type)>>
    IN  IF ~sel.ok THEN AdapterRaise(sel.exc, call, <<>>)
        ELSE AdapterReturn(LogLoop(sel.tool_calls, qs), call, <<>>)

(***************************************************************************)
(* DecideTool                                                              *)
(***************************************************************************)
max_retries == 3

\* base_delay = 1.5 seconds, in milliseconds
base_delay == 1500

max_chars == 20000

keep_last == 6

RECURSIVE Pow2(_)
Pow2(n) == IF n = 0 THEN 1 ELSE 2 * Pow2(n - 1)

\* _truncate_text(text)
_truncate_text(text) ==
    IF text = "" THEN text
    ELSE IF Len(text) <= max_chars THEN text
    ELSE SubSeq(text, 1, max_chars) \o "\n\n... (truncated)"

_trim_history_for_prompt_Whole(h) == h

\* _trim_history_for_prompt(history): history[-keep_last:]
_trim_history_for_prompt(h) == SubSeq(h, Max(1, Len(h) - keep_last + 1), Len(h))

\* "\n\n".join(f"{src['title']}:\n{src['content']}" for src in parts)
SourcesJoined(parts) ==
    Join("\n\n", [i \in 1..Len(parts) |-> parts[i].title \o ":\n" \o parts[i].content])

Refs_ZeroBased(n) == Join("", [i \in 1..n |-> "[doc" \o Str(i - 1) \o "]"])

\* "".join(f"[doc{idx+1}]" for idx in range(n))
Refs(n) == Join("", [i \in 1..n |-> "[doc" \o Str(i) \o "]"])

\* references_suffix of the general path
ReferencesSuffix(parts) ==
    IF parts /= <<>> THEN "\n\nReferences: " \o Refs(Len(parts)) ELSE ""

\* [{"title": s['title'], "content": s['content']} for s in parts]
Citations(parts) == [i \in 1..Len(parts) |-> Item(parts[i].title, parts[i].content)]

RAG == "rag_chat_service.get_chat_completion"

SQL == "sql_query_service.get_chat_completion"

LOG == "log_analytics_service.get_chat_completion"

\* tc.function.arguments as the model may write them, and json.loads of each
ArgsPlain == "{\"query\": \"payment-gw-staging owner\"}"

ArgsControl == "{\"query\": \";;SQL;;dbo.virtual_machines\"}"

ArgsMalformed == "{\"query\": \"payment-gw"

JsonLoadsOk(arguments) == arguments \in {ArgsPlain, ArgsControl}

\* fargs.get("query", history[-1].content)
QueryOf(arguments, last) ==
    IF arguments = ArgsPlain THEN "payment-gw-staging owner"
    ELSE IF arguments = ArgsControl THEN ";;SQL;;dbo.virtual_machines"
    ELSE last

ToolCall(name, arguments) == [name |-> name, arguments |-> arguments]

ToolCallKinds ==
    { ToolCall(n, a) : n \in {RAG, LOG}, a \in {ArgsPlain, ArgsMalformed} }
    \cup { ToolCall(SQL, a) : a \in {ArgsPlain, ArgsControl, ArgsMalformed} }

JSONDecodeError == [type |-> "JSONDecodeError", msg |-> "Unterminated string starting at"]

\* message.content of the final answer
FinalAnswers == {"", "payment-gw-staging is owned by the Payments team."}

(***************************************************************************)
(* The requests: a history of n messages whose last one is a question or   *)
(* one of the control commands.                                            *)
(***************************************************************************)
MaxHist == 7

MaxCalls == 3

LastContents ==
    { "What team owns payment-gw-stagin?",
      ";;SQL;;dbo.virtual_machines,dbo.network_interfaces",
      ";;EXECUTE;;name,location" }

Message(role, content) == [role |-> role, content |-> content]

History(n, last) ==
    [i \in 1..n |->
        IF i = n THEN Message("user", last)
        ELSE Message(IF (n - i) % 2 = 0 THEN "user" ELSE "assistant", "message " \o Str(i))]

Histories == { History(n, last) : n \in 1..MaxHist, last \in LastContents }

\* history[-k]
FromEnd(h, k) == h[Len(h) - k + 1]

OriginalQuestion_Third(h) == FromEnd(h, 3).content

\* history[-5].content, the question an ;;EXECUTE;; command is answered for
OriginalQuestion(h) == FromEnd(h, 5).content

Response(content, cits, metadata) ==
    [content |-> content, citations |-> cits, metadata |-> metadata]

NoResponse == Response("", <<>>, "None")

\* the body the endpoint returns: choices[0].message, with or without a context
Reply(role, content, context) == [role |-> role, content |-> content, context |-> context]

NoReply == Reply("None", "", "None")

\* no function applied (request-level specifications)
NoArg == <<"None">>

NoResult == <<"None">>

\* no requests in flight (single-request and function-level specifications)
NoFrames == <<>>

(***************************************************************************)
(* What the adapters meet while a request is served: for each adapter the  *)
(* answers that lead it down each of its branches.                         *)
(***************************************************************************)
RagSel(e, text) ==
    IF e = NoError
    THEN [ok |-> TRUE, exc |-> NoError, json |-> CHOOSE j \in JsonAnswers : j.text = text]
    ELSE [ok |-> FALSE, exc |-> e, json |-> CHOOSE j \in JsonAnswers : ~j.ok]

RagCases ==
    { [sel |-> RagSel(RateLimitError, ""), inv |-> [ok |-> TRUE, n |-> 1],
       inc |-> [ok |-> FALSE, n |-> 0], fault |-> FALSE],
      [sel |-> RagSel(NoError, "{\"inventories\": true, \"incidents\": true}"),
       inv |-> [ok |-> TRUE, n |-> 1], inc |-> [ok |-> TRUE, n |-> 4], fault |-> FALSE],
      [sel |-> RagSel(NoError, "{\"inventories\": false, \"incidents\": false}"),
       inv |-> [ok |-> TRUE, n |-> 1], inc |-> [ok |-> TRUE, n |-> 4], fault |-> FALSE],
      [sel |-> RagSel(NoError, "{\"inventories\": true, \"incidents\": true}"),
       inv |-> [ok |-> TRUE, n |-> 1], inc |-> [ok |-> TRUE, n |-> 4], fault |-> TRUE] }

LogSel(e, calls) == [ok |-> e = NoError, exc |-> e, tool_calls |-> calls]

LogCases ==
    { [sel |-> LogSel(RateLimitError, <<>>), qs |-> <<>>],
      [sel |-> LogSel(NoError, <<>>), qs |-> <<>>],
      [sel |-> LogSel(NoError, <<LogToolNames[3]>>),
       qs |-> <<[ok |-> TRUE, nrows |-> 1, ncols |-> 2]>>] }

\* the model and database answers a relational call can meet: the ;;SQL;;
\* branch asks the database only, any other text neither
SqlCases(effective_query) ==
    IF StartsWith(Upper(effective_query), ";;SQL;;")
    THEN { [gen |-> CHOOSE g \in GenOutcomes : TRUE, db |-> d] : d \in DbOutcomes }
    ELSE IF StartsWith(Upper(effective_query), ";;EXECUTE;;")
    THEN { [gen |-> g, db |-> d] : g \in GenOutcomes, d \in DbOutcomes }
    ELSE { [gen |-> CHOOSE g \in GenOutcomes : TRUE, db |-> CHOOSE d \in DbOutcomes : TRUE] }

(***************************************************************************)
(* DecideTool.get_chat_completion, one action per awaited step             *)
(***************************************************************************)
Last == FromEnd(history, 1).content

Fail(exc) ==
    /\ pc' = "FAILED"
    /\ error' = exc

\* the effects of an adapter call on the records of calls made
AdapterCalled(name, r) ==
    /\ invoked' = Append(invoked, [name |-> name, raised |-> r.raised])
    /\ executed_sql' = executed_sql \o r.sql
    /\ fetched' = IF r.raised THEN fetched ELSE fetched \o r.items
    /\ llm_calls' = IF r.llm /= <<>> THEN r.llm ELSE llm_calls
    /\ sleeps' = IF r.llm /= <<>> THEN <<>> ELSE sleeps

SelectSite == "DecideTool.select"

FinalSite == "DecideTool.final"

ExecuteFinalSite == "DecideTool.execute_final"

GenerateSqlSite == "SQLQueryService._generate_sql"

\* a prompt sent to the model, or the query handed to an adapter: the texts it
\* is built from
Prompt(site, messages) == [site |-> site, messages |-> messages]

Contents(h) == [i \in 1..Len(h) |-> h[i].content]

\* trimmed_history[:-1] + [system] + [trimmed_history[-1].content]
SelectMessages(h) ==
    LET trimmed_history == _trim_history_for_prompt(h)
    IN  Contents(SubSeq(trimmed_history, 1, Len(trimmed_history) - 1))
        \o <<"Select the single best tool.",
             trimmed_history[Len(trimmed_history)].content>>

\* trimmed_history[:-1] + [system_prompt.format(query=history[-1].content, ...)]
FinalMessages(h) ==
    LET trimmed_history == _trim_history_for_prompt(h)
    IN  Contents(SubSeq(trimmed_history, 1, Len(trimmed_history) - 1))
        \o <<h[Len(h)].content>>

\* the ;;EXECUTE;; branch: the query of the relational adapter, the user_query
\* its _generate_sql prompt is built from, and the query of the grounding
\* prompt
ExecutePrompts(effective_query, query) ==
    LET pieces == Split(effective_query, "|||")
    IN  {Prompt(SQL, <<effective_query>>)}
        \cup (IF Len(pieces) = 2 THEN {Prompt(GenerateSqlSite, <<pieces[2]>>)} ELSE {})
        \cup {Prompt(ExecuteFinalSite, <<query>>)}

\* if history[-1].content.startswith(";;SQL;;")
SqlCommand ==
    /\ pc = "received"
    /\ StartsWith(Last, ";;SQL;;")
    /\ \E c \in SqlCases(Last) :
         LET r == SqlGetChatCompletion(Last, c.gen, c.db)
         IN  /\ AdapterCalled(SQL, r)
             /\ IF r.raised
                THEN Fail(r.exc) /\ UNCHANGED response
                ELSE /\ response' = Response(r.items[1].content, <<>>, "conversation_id")
                     /\ pc' = "DONE"
                     /\ UNCHANGED error
    /\ UNCHANGED <<history, attempt, n_tool_calls, tool_calls, sources_parts, citations,
                   prompt_sources, sql_text, sql_verdict>>
    /\ prompts' = {Prompt(SQL, <<Last>>)}
    /\ UNCHANGED <<entry, reply, arg, result, frames>>

\* if history[-1].content.startswith(";;EXECUTE;;"), up to the final answer request
ExecuteCommand ==
    /\ pc = "received"
    /\ ~StartsWith(Last, ";;SQL;;")
    /\ StartsWith(Last, ";;EXECUTE;;")
    /\ IF Len(history) < 5
       THEN /\ Fail(IndexError)
            /\ UNCHANGED <<invoked, executed_sql, fetched, llm_calls, sleeps, citations,
                           prompt_sources, attempt>>
       ELSE \E c \in SqlCases(Last) :
              LET r == SqlGetChatCompletion(Last \o "|||" \o OriginalQuestion(history),
                                            c.gen, c.db)
              IN  /\ AdapterCalled(SQL, r)
                  /\ IF r.raised
                     THEN Fail(r.exc) /\ UNCHANGED <<citations, prompt_sources, attempt>>
                     ELSE /\ citations' = Citations(<<r.items[1]>>)
                          /\ prompt_sources' = SourcesJoined(Citations(<<r.items[1]>>))
                          /\ pc' = "execute_final"
                          /\ attempt' = 0
                          /\ UNCHANGED error
    /\ UNCHANGED <<history, n_tool_calls, tool_calls, sources_parts, response,
                   sql_text, sql_verdict>>
    /\ prompts' = IF Len(history) < 5 THEN prompts
                ELSE ExecutePrompts(Last \o "|||" \o OriginalQuestion(history),
                                    OriginalQuestion(history))
    /\ UNCHANGED <<entry, reply, arg, result, frames>>

\* the general path up to the tool-selection request
GeneralRequest ==
    /\ pc = "received"
    /\ ~StartsWith(Last, ";;SQL;;")
    /\ ~StartsWith(Last, ";;EXECUTE;;")
    /\ pc' = "select"
    /\ attempt' = 0
    /\ UNCHANGED <<history, llm_calls, sleeps, n_tool_calls, tool_calls, invoked, fetched,
                   executed_sql, sources_parts, citations, prompt_sources, response,
                   error, sql_text, sql_verdict>>
    /\ prompts' = {Prompt(SelectSite, SelectMessages(history))}
    /\ UNCHANGED <<entry, reply, arg, result, frames>>

(***************************************************************************)
(* _retry_openai_call: one pass of its for-loop per step                   *)
(***************************************************************************)
Attempted(site, outcome) ==
    llm_calls' = Append(IF attempt = 0 THEN <<>> ELSE llm_calls, LlmCall(site, outcome))

SleptSoFar == IF attempt = 0 THEN <<>> ELSE sleeps

ShouldRetry_AnyError(exc, n) == n /= max_retries - 1

\* except RateLimitError with attempt /= max_retries - 1: sleep and loop again
ShouldRetry(exc, n) == exc.type = "RateLimitError" /\ n /= max_retries - 1

Delay_Constant(n) == base_delay

\* delay = base_delay * (2 ** attempt)
Delay(n) == base_delay * Pow2(n)

\* return await func()
RetryReturn(site) ==
    /\ Attempted(site, "ok")
    /\ sleeps' = SleptSoFar

\* func() raised exc
RetryRaise(site, exc) ==
    /\ Attempted(site, exc.type)
    /\ IF ShouldRetry(exc, attempt)
       THEN /\ attempt' = attempt + 1
            /\ sleeps' = Append(SleptSoFar, Delay(attempt))
            /\ UNCHANGED <<pc, error>>
       ELSE /\ Fail(exc)
            /\ sleeps' = SleptSoFar
            /\ UNCHANGED attempt

\* the tool-selection request answers: msg.tool_calls holds n tool calls.  The
\* response fixes them all; each is recorded in tool_calls when the for-loop
\* takes it, which yields the same runs since no step reads a later tool call.
SelectReturn ==
    /\ pc = "select"
    /\ RetryReturn(SelectSite)
    /\ \E n \in 0..MaxCalls :
         /\ n_tool_calls' = n
         /\ pc' = IF n = 0 THEN "final" ELSE "tools"
    /\ tool_calls' = <<>>
    /\ attempt' = 0
    /\ UNCHANGED <<history, invoked, fetched, executed_sql, sources_parts, citations,
                   prompt_sources, response, error, sql_text, sql_verdict>>
    /\ UNCHANGED <<entry, reply, arg, result, frames, prompts>>

SelectRaise ==
    /\ pc = "select"
    /\ \E e \in LlmErrors : RetryRaise(SelectSite, e)
    /\ UNCHANGED <<history, n_tool_calls, tool_calls, invoked, fetched, executed_sql,
                   sources_parts, citations, prompt_sources, response, sql_text,
                   sql_verdict>>
    /\ UNCHANGED <<entry, reply, arg, result, frames, prompts>>

(***************************************************************************)
(* The for-loop over tool_calls: one tool call per step                    *)
(***************************************************************************)
AfterToolCall_FirstOnly == "final"

\* where the request stands once the tool call in hand is done
AfterToolCall == IF Len(tool_calls) + 1 = n_tool_calls THEN "final" ELSE "tools"

Absorb_Propagates(r) ==
    /\ Fail(r.exc)
    /\ UNCHANGED <<sources_parts, response>>

\* except Exception as se: logger.error(...)
Absorb(r) ==
    /\ pc' = AfterToolCall
    /\ UNCHANGED <<sources_parts, response, error>>

\* _accumulate(source)
Accumulate(r) ==
    /\ sources_parts' = sources_parts \o r.items
    /\ pc' = AfterToolCall
    /\ UNCHANGED <<response, error>>

ReturnSqlResults_Accumulate(r) == Accumulate(r)

\* the return inside the relational branch
ReturnSqlResults(r) ==
    /\ response' = Response(r.items[1].content, <<>>, "new_conversation_id")
    /\ pc' = "DONE"
    /\ UNCHANGED <<sources_parts, error>>

\* json.loads(tc.function.arguments or "{}") raises
MalformedToolCall ==
    /\ pc = "tools"
    /\ \E tc \in ToolCallKinds :
         /\ ~JsonLoadsOk(tc.arguments)
         /\ tool_calls' = Append(tool_calls, tc)
    /\ Fail(JSONDecodeError)
    /\ UNCHANGED <<history, attempt, llm_calls, sleeps, n_tool_calls, invoked, fetched,
                   executed_sql, sources_parts, citations, prompt_sources, response,
                   sql_text, sql_verdict>>
    /\ UNCHANGED <<entry, reply, arg, result, frames, prompts>>

SqlToolCall ==
    /\ pc = "tools"
    /\ \E tc \in ToolCallKinds :
         /\ JsonLoadsOk(tc.arguments)
         /\ tc.name = SQL
         /\ tool_calls' = Append(tool_calls, tc)
         /\ prompts' = prompts \cup {Prompt(tc.name, <<QueryOf(tc.arguments, Last)>>)}
         /\ \E c \in SqlCases(QueryOf(tc.arguments, Last)) :
            LET r == SqlGetChatCompletion(QueryOf(tc.arguments, Last), c.gen, c.db)
            IN  /\ AdapterCalled(SQL, r)
                /\ IF r.raised THEN Absorb(r) ELSE ReturnSqlResults(r)
    /\ attempt' = 0
    /\ UNCHANGED <<history, n_tool_calls, citations, prompt_sources, sql_text, sql_verdict>>
    /\ UNCHANGED <<entry, reply, arg, result, frames>>

RagToolCall ==
    /\ pc = "tools"
    /\ \E tc \in ToolCallKinds, c \in RagCases :
         /\ JsonLoadsOk(tc.arguments)
         /\ tc.name = RAG
         /\ tool_calls' = Append(tool_calls, tc)
         /\ prompts' = prompts \cup {Prompt(tc.name, <<QueryOf(tc.arguments, Last)>>)}
         /\ LET r == RagGetChatCompletion(c.sel, c.inv, c.inc, c.fault)
            IN  /\ AdapterCalled(RAG, r)
                /\ IF r.raised THEN Absorb(r) ELSE Accumulate(r)
    /\ attempt' = 0
    /\ UNCHANGED <<history, n_tool_calls, citations, prompt_sources, sql_text, sql_verdict>>
    /\ UNCHANGED <<entry, reply, arg, result, frames>>

LogToolCall ==
    /\ pc = "tools"
    /\ \E tc \in ToolCallKinds, c \in LogCases :
         /\ JsonLoadsOk(tc.arguments)
         /\ tc.name = LOG
         /\ tool_calls' = Append(tool_calls, tc)
         /\ prompts' = prompts \cup {Prompt(tc.name, <<QueryOf(tc.arguments, Last)>>)}
         /\ LET r == LogGetChatCompletion(c.sel, c.qs)
            IN  /\ AdapterCalled(LOG, r)
                /\ IF r.raised THEN Absorb(r) ELSE Accumulate(r)
    /\ attempt' = 0
    /\ UNCHANGED <<history, n_tool_calls, citations, prompt_sources, sql_text, sql_verdict>>
    /\ UNCHANGED <<entry, reply, arg, result, frames>>

(***************************************************************************)
(* The final answer request and the response                               *)
(***************************************************************************)
FinalReturn ==
    /\ pc = "final"
    /\ RetryReturn(FinalSite)
    /\ prompt_sources' = _truncate_text(SourcesJoined(sources_parts))
    /\ citations' = Citations(sources_parts)
    /\ \E base_content \in FinalAnswers :
         response' = Response(base_content \o ReferencesSuffix(sources_parts),
                              Citations(sources_parts), "absent")
    /\ pc' = "DONE"
    /\ UNCHANGED <<history, attempt, n_tool_calls, tool_calls, invoked, fetched,
                   executed_sql, sources_parts, error, sql_text, sql_verdict>>
    /\ prompts' = prompts \cup {Prompt(FinalSite, FinalMessages(history))}
    /\ UNCHANGED <<entry, reply, arg, result, frames>>

FinalRaise ==
    /\ pc = "final"
    /\ \E e \in LlmErrors : RetryRaise(FinalSite, e)
    /\ prompt_sources' = _truncate_text(SourcesJoined(sources_parts))
    /\ UNCHANGED <<history, n_tool_calls, tool_calls, invoked, fetched, executed_sql,
                   sources_parts, citations, response, sql_text, sql_verdict>>
    /\ prompts' = prompts \cup {Prompt(FinalSite, FinalMessages(history))}
    /\ UNCHANGED <<entry, reply, arg, result, frames>>

\* the final answer request of the ;;EXECUTE;; path
ExecuteFinalReturn ==
    /\ pc = "execute_final"
    /\ RetryReturn(ExecuteFinalSite)
    /\ \E base_content \in FinalAnswers :
         response' = Response(base_content \o "\nReferences: [doc1]", citations, "absent")
    /\ pc' = "DONE"
    /\ UNCHANGED <<history, attempt, n_tool_calls, tool_calls, invoked, fetched,
                   executed_sql, sources_parts, citations, prompt_sources, error,
                   sql_text, sql_verdict>>
    /\ UNCHANGED <<entry, reply, arg, result, frames, prompts>>

ExecuteFinalRaise ==
    /\ pc = "execute_final"
    /\ \E e \in LlmErrors : RetryRaise(ExecuteFinalSite, e)
    /\ UNCHANGED <<history, n_tool_calls, tool_calls, invoked, fetched, executed_sql,
                   sources_parts, citations, prompt_sources, response, sql_text,
                   sql_verdict>>
    /\ UNCHANGED <<entry, reply, arg, result, frames, prompts>>

(***************************************************************************)
(* Specification of a request                                              *)
(***************************************************************************)
Init ==
    /\ history \in Histories
    /\ pc = "received"
    /\ attempt = 0
    /\ llm_calls = <<>>
    /\ sleeps = <<>>
    /\ n_tool_calls = 0
    /\ tool_calls = <<>>
    /\ invoked = <<>>
    /\ fetched = <<>>
    /\ executed_sql = <<>>
    /\ sources_parts = <<>>
    /\ citations = <<>>
    /\ prompt_sources = ""
    /\ response = NoResponse
    /\ error = NoError
    /\ sql_text = ""
    /\ sql_verdict = "unset"
    /\ entry = "main"
    /\ reply = NoReply
    /\ arg = NoArg
    /\ result = NoResult
    /\ frames = NoFrames
    /\ prompts = {}

Next ==
    \/ SqlCommand
    \/ ExecuteCommand
    \/ GeneralRequest
    \/ SelectReturn
    \/ SelectRaise
    \/ MalformedToolCall
    \/ SqlToolCall
    \/ RagToolCall
    \/ LogToolCall
    \/ FinalReturn
    \/ FinalRaise
    \/ ExecuteFinalReturn
    \/ ExecuteFinalRaise

Spec == Init /\ [][Next]_vars

\* a request that has not ended is awaiting an external call (model, search,
\* SQL, log query) or is about to make one
Awaiting == pc \in {"received", "select", "tools", "final", "execute_final"}

\* the request under the assumption that every external call eventually
\* returns or raises: weak fairness of Next, WF_vars(Next), with
\* ENABLED <<Next>>_vars written out as Awaiting
LiveSpec == Init /\ [][Next]_vars /\ ([]<>(~Awaiting) \/ []<><<Next>>_vars)

(***************************************************************************)
(* The chat_completion endpoint of main.py and of app/main.py around the   *)
(* orchestrator                                                            *)
(***************************************************************************)
\* str(e) of the HTTPException raised for an empty messages list: the text the
\* installed framework version gives it
HTTPExceptions ==
    { [type |-> "HTTPException", msg |-> "400: Messages cannot be empty"],
      [type |-> "HTTPException", msg |-> ""] }

\* chat_request.conversation_id: ChatRequest declares no such field
AttributeError ==
    [type |-> "AttributeError",
     msg |-> "'ChatRequest' object has no attribute 'conversation_id'"]

BusyMessage ==
    "The AI service is currently experiencing high demand. Please wait a moment and try again."

ErrorStr_NoLower(e) == e.msg

\* error_str = str(e).lower()
ErrorStr(e) == Lower(e.msg)

\* the message returned by the except clause
ErrorReply(e) ==
    LET error_str == ErrorStr(e)
    IN  IF Contains(error_str, "rate limit") \/ Contains(error_str, "capacity")
           \/ Contains(error_str, "quota")
        THEN Reply("assistant", BusyMessage, "absent")
        ELSE Reply("assistant", "An error occurred: " \o e.msg, "absent")

\* if not chat_request.messages: raise HTTPException(...)
EmptyMessages ==
    /\ pc = "endpoint"
    /\ history = <<>>
    /\ \E e \in HTTPExceptions : Fail(e)
    /\ UNCHANGED <<history, attempt, llm_calls, sleeps, n_tool_calls, tool_calls, invoked,
                   fetched, executed_sql, sources_parts, citations, prompt_sources,
                   response, sql_text, sql_verdict, entry, reply, arg, result, frames, prompts>>

\* main.py: await decide_tool.get_chat_completion(chat_request.messages)
CallDecideTool ==
    /\ pc = "endpoint"
    /\ history /= <<>>
    /\ entry = "main"
    /\ pc' = "received"
    /\ UNCHANGED <<history, attempt, llm_calls, sleeps, n_tool_calls, tool_calls, invoked,
                   fetched, executed_sql, sources_parts, citations, prompt_sources,
                   response, error, sql_text, sql_verdict, entry, reply, arg, result, frames, prompts>>

\* app/main.py: the argument chat_request.conversation_id raises before the call
ConversationIdMissing ==
    /\ pc = "endpoint"
    /\ history /= <<>>
    /\ entry = "app.main"
    /\ Fail(AttributeError)
    /\ UNCHANGED <<history, attempt, llm_calls, sleeps, n_tool_calls, tool_calls, invoked,
                   fetched, executed_sql, sources_parts, citations, prompt_sources,
                   response, sql_text, sql_verdict, entry, reply, arg, result, frames, prompts>>

\* return response
EndpointReturn ==
    /\ pc = "DONE"
    /\ reply = NoReply
    /\ reply' = Reply("assistant", response.content, "citations")
    /\ UNCHANGED <<history, pc, attempt, llm_calls, sleeps, n_tool_calls, tool_calls,
                   invoked, fetched, executed_sql, sources_parts, citations,
                   prompt_sources, response, error, sql_text, sql_verdict, entry, arg, result, frames, prompts>>

\* except Exception as e
EndpointExcept ==
    /\ pc = "FAILED"
    /\ reply = NoReply
    /\ reply' = ErrorReply(error)
    /\ UNCHANGED <<history, pc, attempt, llm_calls, sleeps, n_tool_calls, tool_calls,
                   invoked, fetched, executed_sql, sources_parts, citations,
                   prompt_sources, response, error, sql_text, sql_verdict, entry, arg, result, frames, prompts>>

InitEndpoint ==
    /\ history \in Histories \cup {<<>>}
    /\ entry \in {"main", "app.main"}
    /\ pc = "endpoint"
    /\ attempt = 0
    /\ llm_calls = <<>>
    /\ sleeps = <<>>
    /\ n_tool_calls = 0
    /\ tool_calls = <<>>
    /\ invoked = <<>>
    /\ fetched = <<>>
    /\ executed_sql = <<>>
    /\ sources_parts = <<>>
    /\ citations = <<>>
    /\ prompt_sources = ""
    /\ response = NoResponse
    /\ error = NoError
    /\ sql_text = ""
    /\ sql_verdict = "unset"
    /\ reply = NoReply
    /\ arg = NoArg
    /\ result = NoResult
    /\ frames = NoFrames
    /\ prompts = {}

NextEndpoint ==
    \/ EmptyMessages
    \/ CallDecideTool
    \/ ConversationIdMissing
    \/ Next
    \/ EndpointReturn
    \/ EndpointExcept

SpecEndpoint == InitEndpoint /\ [][NextEndpoint]_vars

(***************************************************************************)
(* Specification of the safety gate: _is_safe_sql applied to a statement   *)
(***************************************************************************)
InitSql ==
    /\ sql_text \in SqlInputs
    /\ sql_verdict = "unset"
    /\ history = <<>>
    /\ pc = "gate"
    /\ attempt = 0
    /\ llm_calls = <<>>
    /\ sleeps = <<>>
    /\ n_tool_calls = 0
    /\ tool_calls = <<>>
    /\ invoked = <<>>
    /\ fetched = <<>>
    /\ executed_sql = <<>>
    /\ sources_parts = <<>>
    /\ citations = <<>>
    /\ prompt_sources = ""
    /\ response = NoResponse
    /\ error = NoError
    /\ entry = "main"
    /\ reply = NoReply
    /\ arg = NoArg
    /\ result = NoResult
    /\ frames = NoFrames
    /\ prompts = {}

CheckSql ==
    /\ pc = "gate"
    /\ sql_verdict = "unset"
    /\ sql_verdict' = _is_safe_sql(sql_text)
    /\ UNCHANGED <<history, pc, attempt, llm_calls, sleeps, n_tool_calls, tool_calls,
                   invoked, fetched, executed_sql, sources_parts, citations,
                   prompt_sources, response, error, sql_text>>
    /\ UNCHANGED <<entry, reply, arg, result, frames, prompts>>

NextSql == CheckSql

SpecSql == InitSql /\ [][NextSql]_vars

(***************************************************************************)
(* Specification of the adapters' functions: each applied once to an       *)
(* argument drawn from its inputs                                          *)
(***************************************************************************)
\* the function applied and its argument: arg[1] names the function, arg[2] is
\* what it is called with
Arg(fn, in) == <<fn, in>>

\* the function that returned and its value: result[2] is what it returned
Result(fn, value) == <<fn, value>>

SelectIndexesArgs == { Arg("_select_indexes", sel) : sel \in RagSelOutcomes }

RagArgs ==
    { Arg(RAG, [sel |-> sel, inv |-> inv, inc |-> inc, fault |-> fault]) :
        sel \in RagSelOutcomes, inv \in SearchOutcomes(InventoriesIndex),
        inc \in SearchOutcomes(IncidentsIndex), fault \in BOOLEAN }

\* effective_query of the relational adapter: a question, the two commands, and
\* an ;;EXECUTE;; command without its ||| part
SqlQueries ==
    { "How many virtual machines run in japaneast?",
      ";;SQL;;dbo.virtual_machines,dbo.network_interfaces",
      ";;EXECUTE;;name,location|||List the virtual machines",
      ";;EXECUTE;;name,location" }

SqlArgs ==
    { Arg(SQL, [effective_query |-> q, gen |-> c.gen, db |-> c.db]) :
        q \in SqlQueries, c \in { [gen |-> g, db |-> d] : g \in GenOutcomes, d \in DbOutcomes } }

\* the sub-action selection answers: the call raises, or msg.tool_calls names
\* no function, one function (advertised or not), or two
LogSelections ==
    { <<>>, <<"self.query_disk_usage">>, <<LogToolNames[1], LogToolNames[8]>> }
    \cup { <<LogToolNames[i]>> : i \in 1..Len(LogToolNames) }
    \cup { <<LogBranches[i][1]>> : i \in 1..Len(LogBranches) }

LogArgs ==
    { Arg(LOG, [sel |-> LogSel(e, <<>>), qs |-> <<>>]) : e \in LlmErrors }
    \cup { Arg(LOG, [sel |-> LogSel(NoError, calls), qs |-> [i \in 1..Len(calls) |-> q]]) :
             calls \in LogSelections, q \in LogQueryOutcomes }

\* result rows of nrows rows and ncols columns whose values are `wide`
\* characters long or short
CellText == "Microsoft.Compute/virtualMachines/payment-gw-staging-01"

WideRow(k, ncols, wide) ==
    [i \in 1..ncols |->
        <<"column_" \o Str(i), (IF wide THEN CellText ELSE "v") \o Str(k) \o "_" \o Str(i)>>]

WideRows(nrows, ncols, wide) == [k \in 1..nrows |-> WideRow(k, ncols, wide)]

MaxSqlRows == 10

SqlRowLists ==
    { WideRows(n, c, w) : n \in 0..MaxSqlRows, c \in {1, 8}, w \in BOOLEAN }

RowsToSourcesArgs ==
    { Arg(f, rows) : f \in {"_rows_to_sources", "_rows_to_sources_auto"}, rows \in SqlRowLists }

\* log query results around the limits of rows_to_markdown_table
MaxLogRows == 52

MaxLogCols == 14

MarkdownTableArgs ==
    { Arg("rows_to_markdown_table", LogRows(n, c)) :
        n \in {0, 1, 2} \cup ((max_rows - 1)..MaxLogRows),
        c \in {1, 2} \cup ((max_cols - 1)..MaxLogCols) }

FnArgs ==
    SelectIndexesArgs \cup RagArgs \cup SqlArgs \cup LogArgs \cup RowsToSourcesArgs
    \cup MarkdownTableArgs

Applied(value) ==
    /\ pc = "apply"
    /\ result' = Result(arg[1], value)
    /\ pc' = "applied"
    /\ UNCHANGED <<history, attempt, llm_calls, sleeps, n_tool_calls, tool_calls, invoked,
                   fetched, executed_sql, sources_parts, citations, prompt_sources,
                   response, error, sql_text, sql_verdict, entry, reply, arg, frames, prompts>>

ApplySelectIndexes ==
    /\ arg[1] = "_select_indexes"
    /\ Applied(_select_indexes(arg[2]))

\* rag_chat_service.get_chat_completion(effective_query)
ApplyRag ==
    /\ arg[1] = RAG
    /\ Applied(RagGetChatCompletion(arg[2].sel, arg[2].inv, arg[2].inc, arg[2].fault))

\* sql_query_service.get_chat_completion(effective_query)
ApplySql ==
    /\ arg[1] = SQL
    /\ Applied(SqlGetChatCompletion(arg[2].effective_query, arg[2].gen, arg[2].db))

\* log_analytics_service.get_chat_completion(effective_query)
ApplyLog ==
    /\ arg[1] = LOG
    /\ Applied(LogGetChatCompletion(arg[2].sel, arg[2].qs))

\* sql_query_service._rows_to_sources(rows)
ApplyRowsToSources ==
    /\ arg[1] = "_rows_to_sources"
    /\ Applied(_rows_to_sources(arg[2]))

\* sql_query_auto_service._rows_to_sources(rows)
ApplyRowsToSourcesAuto ==
    /\ arg[1] = "_rows_to_sources_auto"
    /\ Applied(_rows_to_sources_auto(arg[2]))

ApplyRowsToMarkdownTable ==
    /\ arg[1] = "rows_to_markdown_table"
    /\ Applied(rows_to_markdown_table(arg[2]))

InitFn ==
    /\ arg \in FnArgs
    /\ result = NoResult
    /\ frames = NoFrames
    /\ prompts = {}
    /\ pc = "apply"
    /\ history = <<>>
    /\ attempt = 0
    /\ llm_calls = <<>>
    /\ sleeps = <<>>
    /\ n_tool_calls = 0
    /\ tool_calls = <<>>
    /\ invoked = <<>>
    /\ fetched = <<>>
    /\ executed_sql = <<>>
    /\ sources_parts = <<>>
    /\ citations = <<>>
    /\ prompt_sources = ""
    /\ response = NoResponse
    /\ error = NoError
    /\ sql_text = ""
    /\ sql_verdict = "unset"
    /\ entry = "main"
    /\ reply = NoReply

NextFn ==
    \/ ApplySelectIndexes
    \/ ApplyRag
    \/ ApplySql
    \/ ApplyLog
    \/ ApplyRowsToSources
    \/ ApplyRowsToSourcesAuto
    \/ ApplyRowsToMarkdownTable

SpecFn == InitFn /\ [][NextFn]_vars

(***************************************************************************)
(* Specification of two requests served concurrently by the one event      *)
(* loop: each step of a request runs from one await to the next, and the   *)
(* steps of the two requests interleave freely.  The services are module   *)
(* singletons (decide_tool, rag_chat_service, log_analytics_service,       *)
(* sql_query_service); their attributes are assigned in __init__ only.     *)
(***************************************************************************)
Requests == {1, 2}

\* len(msg.tool_calls) of a tool-selection answer
MaxConcCalls == 2

\* no adapter call under way
NoCall == AdapterReturn(<<>>, <<>>, <<>>)

\* the locals of DecideTool.get_chat_completion in one request; call is what
\* the backing-store call under way is going to answer
Frame(pc_, n, parts, got, cits, overlapped) ==
    [pc |-> pc_, n_tool_calls |-> n, sources_parts |-> parts, fetched |-> got,
     citations |-> cits, overlapped |-> overlapped, call |-> NoCall]

\* request r is inside a call to a backing store: the document search, a log
\* query, or the execution of a SQL statement
StoreCall(r) == frames[r].pc \in {"search", "log_query", "sql"}

\* request r is between its first and its last step
InFlight(r) == frames[r].pc \in {"select", "tools", "final"} \/ StoreCall(r)

Overlaps(r) == frames[r].overlapped \/ \E o \in Requests \ {r} : InFlight(o)

\* the thread a backing-store call runs on: _execute_sql goes through
\* asyncio.to_thread, SearchClient.search and LogsQueryClient.query_workspace
\* are called from the coroutine itself
StoreThread(store) == IF store = "sql" THEN "worker" ELSE "loop"

\* request r keeps the event loop's thread inside a blocking call
HoldsLoop(r) == StoreCall(r) /\ StoreThread(frames[r].pc) = "loop"

\* the event loop can run a step of request r
CanRun(r) == \A o \in Requests \ {r} : ~HoldsLoop(o)

FrameOf_Singleton(r) == 1

\* the frame holding the sources_parts list a step of request r works on: the
\* list is a local of the coroutine, so each request has its own
FrameOf(r) == r

\* entry of get_chat_completion up to the tool-selection request:
\* sources_parts: List[dict] = []
ConcReceive(r) ==
    /\ pc = "concurrent"
    /\ CanRun(r)
    /\ frames[r].pc = "received"
    /\ frames' = [frames EXCEPT ![FrameOf(r)].sources_parts = <<>>,
                                ![r].pc = "select",
                                ![r].overlapped = Overlaps(r)]
    /\ UNCHANGED <<history, pc, attempt, llm_calls, sleeps, n_tool_calls, tool_calls,
                   invoked, fetched, executed_sql, sources_parts, citations,
                   prompt_sources, response, error, sql_text, sql_verdict, entry, reply,
                   arg, result, prompts>>

\* the tool-selection request answers with n tool calls
ConcSelectReturn(r) ==
    /\ pc = "concurrent"
    /\ CanRun(r)
    /\ frames[r].pc = "select"
    /\ \E n \in 0..MaxConcCalls :
         frames' = [frames EXCEPT ![r].n_tool_calls = n,
                                  ![r].pc = IF n = 0 THEN "final" ELSE "tools",
                                  ![r].overlapped = Overlaps(r)]
    /\ UNCHANGED <<history, pc, attempt, llm_calls, sleeps, n_tool_calls, tool_calls,
                   invoked, fetched, executed_sql, sources_parts, citations,
                   prompt_sources, response, error, sql_text, sql_verdict, entry, reply,
                   arg, result, prompts>>

\* the end of one pass of the for-loop over a retrieval tool call: the adapter
\* answers r_, _accumulate extends the list, and the loop goes on to the next
\* await
ConcAccumulate(r, r_) ==
    LET left == frames[r].n_tool_calls - 1
    IN  frames' = [frames EXCEPT
                     ![FrameOf(r)].sources_parts =
                         IF r_.raised THEN @ ELSE @ \o r_.items,
                     ![r].fetched = IF r_.raised THEN @ ELSE @ \o r_.items,
                     ![r].n_tool_calls = left,
                     ![r].pc = IF left = 0 THEN "final" ELSE "tools",
                     ![r].call = NoCall,
                     ![r].overlapped = Overlaps(r)]

\* the adapter of the tool call in hand enters a backing-store call that is
\* going to answer r_
ConcEnter(r, store, r_) ==
    frames' = [frames EXCEPT ![r].pc = store,
                             ![r].call = r_,
                             ![r].overlapped = Overlaps(r)]

\* the document-search tool call, from the answer of _select_indexes on: the
\* indexes chosen are searched
ConcRagToolCall(r) ==
    /\ pc = "concurrent"
    /\ CanRun(r)
    /\ frames[r].pc = "tools"
    /\ \E c \in RagCases :
         LET r_ == RagGetChatCompletion(c.sel, c.inv, c.inc, c.fault)
             chosen == _select_indexes(c.sel)
         IN  IF chosen[1] \/ chosen[2]
             THEN ConcEnter(r, "search", r_)
             ELSE ConcAccumulate(r, r_)
    /\ UNCHANGED <<history, pc, attempt, llm_calls, sleeps, n_tool_calls, tool_calls,
                   invoked, fetched, executed_sql, sources_parts, citations,
                   prompt_sources, response, error, sql_text, sql_verdict, entry, reply,
                   arg, result, prompts>>

\* the log tool call, from the answer of its selection call on: the queries of
\* the sub-actions selected are run
ConcLogToolCall(r) ==
    /\ pc = "concurrent"
    /\ CanRun(r)
    /\ frames[r].pc = "tools"
    /\ \E c \in LogCases :
         LET r_ == LogGetChatCompletion(c.sel, c.qs)
         IN  IF c.sel.ok /\ c.qs /= <<>>
             THEN ConcEnter(r, "log_query", r_)
             ELSE ConcAccumulate(r, r_)
    /\ UNCHANGED <<history, pc, attempt, llm_calls, sleeps, n_tool_calls, tool_calls,
                   invoked, fetched, executed_sql, sources_parts, citations,
                   prompt_sources, response, error, sql_text, sql_verdict, entry, reply,
                   arg, result, prompts>>

\* SearchClient.search / LogsQueryClient.query_workspace return to the adapter,
\* and the adapter to the loop over the tool calls
ConcStoreReturn(r) ==
    /\ pc = "concurrent"
    /\ CanRun(r)
    /\ frames[r].pc \in {"search", "log_query"}
    /\ ConcAccumulate(r, frames[r].call)
    /\ UNCHANGED <<history, pc, attempt, llm_calls, sleeps, n_tool_calls, tool_calls,
                   invoked, fetched, executed_sql, sources_parts, citations,
                   prompt_sources, response, error, sql_text, sql_verdict, entry, reply,
                   arg, result, prompts>>

\* the relational tool call: a ;;SQL;; query runs the introspection statement,
\* any other text is answered at once
ConcSqlToolCall(r) ==
    /\ pc = "concurrent"
    /\ CanRun(r)
    /\ frames[r].pc = "tools"
    /\ \E a \in {ArgsPlain, ArgsControl} :
         \E c \in SqlCases(QueryOf(a, "")) :
            LET r_ == SqlGetChatCompletion(QueryOf(a, ""), c.gen, c.db)
            IN  IF a = ArgsControl
                THEN ConcEnter(r, "sql", r_)
                ELSE frames' = [frames EXCEPT ![r].citations = <<>>,
                                              ![r].pc = "DONE",
                                              ![r].overlapped = Overlaps(r)]
    /\ UNCHANGED <<history, pc, attempt, llm_calls, sleeps, n_tool_calls, tool_calls,
                   invoked, fetched, executed_sql, sources_parts, citations,
                   prompt_sources, response, error, sql_text, sql_verdict, entry, reply,
                   arg, result, prompts>>

\* _execute_sql returns from its worker thread: the result is returned at
\* once, with no citations; a failure is logged and the loop goes on
ConcSqlReturn(r) ==
    /\ pc = "concurrent"
    /\ CanRun(r)
    /\ frames[r].pc = "sql"
    /\ IF frames[r].call.raised
       THEN ConcAccumulate(r, frames[r].call)
       ELSE frames' = [frames EXCEPT ![r].citations = <<>>,
                                     ![r].pc = "DONE",
                                     ![r].call = NoCall,
                                     ![r].overlapped = Overlaps(r)]
    /\ UNCHANGED <<history, pc, attempt, llm_calls, sleeps, n_tool_calls, tool_calls,
                   invoked, fetched, executed_sql, sources_parts, citations,
                   prompt_sources, response, error, sql_text, sql_verdict, entry, reply,
                   arg, result, prompts>>

\* the final answer request answers: citations are built from sources_parts
ConcFinalReturn(r) ==
    /\ pc = "concurrent"
    /\ CanRun(r)
    /\ frames[r].pc = "final"
    /\ frames' = [frames EXCEPT ![r].citations = Citations(frames[FrameOf(r)].sources_parts),
                                ![r].pc = "DONE",
                                ![r].overlapped = Overlaps(r)]
    /\ UNCHANGED <<history, pc, attempt, llm_calls, sleeps, n_tool_calls, tool_calls,
                   invoked, fetched, executed_sql, sources_parts, citations,
                   prompt_sources, response, error, sql_text, sql_verdict, entry, reply,
                   arg, result, prompts>>

\* an exception leaves get_chat_completion: a model call out of retries, or
\* json.loads of a tool call's arguments
ConcRaise(r) ==
    /\ pc = "concurrent"
    /\ CanRun(r)
    /\ frames[r].pc \in {"select", "tools", "final"}
    /\ frames' = [frames EXCEPT ![r].pc = "FAILED", ![r].overlapped = Overlaps(r)]
    /\ UNCHANGED <<history, pc, attempt, llm_calls, sleeps, n_tool_calls, tool_calls,
                   invoked, fetched, executed_sql, sources_parts, citations,
                   prompt_sources, response, error, sql_text, sql_verdict, entry, reply,
                   arg, result, prompts>>

InitConc ==
    /\ frames = [r \in Requests |-> Frame("received", 0, <<>>, <<>>, <<>>, FALSE)]
    /\ prompts = {}
    /\ pc = "concurrent"
    /\ history = <<>>
    /\ attempt = 0
    /\ llm_calls = <<>>
    /\ sleeps = <<>>
    /\ n_tool_calls = 0
    /\ tool_calls = <<>>
    /\ invoked = <<>>
    /\ fetched = <<>>
    /\ executed_sql = <<>>
    /\ sources_parts = <<>>
    /\ citations = <<>>
    /\ prompt_sources = ""
    /\ response = NoResponse
    /\ error = NoError
    /\ sql_text = ""
    /\ sql_verdict = "unset"
    /\ entry = "main"
    /\ reply = NoReply
    /\ arg = NoArg
    /\ result = NoResult

NextConc ==
    \E r \in Requests :
        \/ ConcReceive(r)
        \/ ConcSelectReturn(r)
        \/ ConcRagToolCall(r)
        \/ ConcLogToolCall(r)
        \/ ConcStoreReturn(r)
        \/ ConcSqlToolCall(r)
        \/ ConcSqlReturn(r)
        \/ ConcFinalReturn(r)
        \/ ConcRaise(r)

SpecConc == InitConc /\ [][NextConc]_vars

(***************************************************************************)
(* Properties                                                              *)
(***************************************************************************)
Range(f) == { f[i] : i \in DOMAIN f }

GeneralPath == ~StartsWith(Last, ";;SQL;;") /\ ~StartsWith(Last, ";;EXECUTE;;")

Terminal == pc \in {"DONE", "FAILED"}

AdaptersInvoked == { c.name : c \in Range(invoked) }

\* the tool-selection call raised out of _retry_openai_call, or a tool call of
\* its answer could not be parsed
SelectionFailed ==
    \/ /\ llm_calls /= <<>>
       /\ llm_calls[Len(llm_calls)].site = SelectSite
       /\ llm_calls[Len(llm_calls)].outcome /= "ok"
       /\ pc = "FAILED"
    \/ error = JSONDecodeError

\* C1: on the general path, when the tool-selection call raises or its output
\* cannot be parsed, the document-search, relational and log-analytics adapters
\* are all invoked and the request goes on to compose an answer instead of failing.
C1_SelectionFailureInvokesAllTools ==
    (GeneralPath /\ Terminal /\ SelectionFailed)
        => (AdaptersInvoked = {RAG, SQL, LOG} /\ pc = "DONE")

\* C2: an exception raised by an adapter call of the tool loop is absorbed: the
\* evidence list is left as it was, the request does not fail, and the loop moves
\* on to the next tool call, or to the final answer request after the last one;
\* a request never fails with an adapter's exception, and when every adapter call
\* raised the evidence list is empty and the answer returned carries no citation
\* and no references suffix.
AdapterRaisedStep ==
    /\ pc = "tools"
    /\ Len(invoked') = Len(invoked) + 1
    /\ invoked'[Len(invoked')].raised

C2_AdapterFailureAbsorbed ==
    /\ [][AdapterRaisedStep =>
            /\ sources_parts' = sources_parts
            /\ error' = NoError
            /\ response' = NoResponse
            /\ pc' = IF Len(tool_calls') < n_tool_calls THEN "tools" ELSE "final"]_vars
    /\ [](GeneralPath =>
            /\ (pc = "FAILED" => error \in LlmErrors \cup {JSONDecodeError})
            /\ ((\A c \in Range(invoked) : c.raised) => sources_parts = <<>>)
            /\ ((pc = "DONE" /\ \A c \in Range(invoked) : c.raised)
                    => response.citations = <<>> /\ response.content \in FinalAnswers))

\* all three adapters raised and the answer was still returned
C2_Witness ==
    /\ pc = "DONE"
    /\ GeneralPath
    /\ AdaptersInvoked = {RAG, SQL, LOG}
    /\ \A c \in Range(invoked) : c.raised
    /\ response.citations = <<>>

\* the text after the last "References: " of a content ("" when there is none)
RECURSIVE RefsSuffix(_)
RefsSuffix(content) ==
    LET i == FindFrom(content, "References: ", 1)
        rest == SliceFrom(content, i + Len("References: ") - 1)
    IN  IF i = 0 THEN ""
        ELSE IF Contains(rest, "References: ") THEN RefsSuffix(rest)
        ELSE rest

\* the value of a string of decimal digits (-1 when it is not one)
RECURSIVE ParseNat(_)
ParseNat(s) ==
    IF s = "" THEN -1
    ELSE LET d == FindFrom(Digits, SubSeq(s, Len(s), Len(s)), 1) - 1
         IN  IF d < 0 THEN -1
             ELSE IF Len(s) = 1 THEN d
             ELSE IF ParseNat(SubSeq(s, 1, Len(s) - 1)) < 0 THEN -1
             ELSE 10 * ParseNat(SubSeq(s, 1, Len(s) - 1)) + d

\* the numbers N of a string made of markers [docN] only (<<-1>> for any other text)
RECURSIVE ParseMarkers(_)
ParseMarkers(s) ==
    IF s = "" THEN <<>>
    ELSE LET close == FindFrom(s, "]", 1)
         IN  IF ~StartsWith(s, "[doc") \/ close = 0 THEN <<-1>>
             ELSE <<ParseNat(SubSeq(s, 5, close - 1))>> \o ParseMarkers(SliceFrom(s, close))

\* C3: in every response returned (general, ;;SQL;; and ;;EXECUTE;; paths), with
\* K citations the references suffix of the content holds exactly the markers
\* [doc1]..[docK] in increasing order, there is no suffix when K = 0, and
\* citations[i] has the title and content of the i-th evidence item fetched.
C3_CitationNumbering ==
    pc = "DONE" =>
        LET K == Len(response.citations)
        IN  /\ ParseMarkers(RefsSuffix(response.content)) = [i \in 1..K |-> i]
            /\ (K = 0 => ~Contains(response.content, "References:"))
            /\ (K > 0 => Contains(response.content, "References: [doc1]"))
            /\ K <= Len(fetched)
            /\ \A i \in 1..K :
                  /\ response.citations[i].title = fetched[i].title
                  /\ response.citations[i].content = fetched[i].content

\* an answer of the general path that cites several evidence items
C3_Witness ==
    /\ pc = "DONE"
    /\ GeneralPath
    /\ Len(response.citations) >= 3
    /\ Contains(response.content, "[doc1][doc2][doc3]")

\* the adapter an evidence item comes from, by the title the adapter gives it
AdapterOf(title) ==
    IF title \in {"Inventories", "Incident"} THEN RAG
    ELSE IF StartsWith(title, "Log Analytics") THEN LOG
    ELSE SQL

\* document search, then relational, then log analytics
Priority(name) == IF name = RAG THEN 1 ELSE IF name = SQL THEN 2 ELSE 3

\* C4: the final evidence list, and with it the citation numbering, follows the
\* priority order document search, relational, log analytics, whatever the
\* order in which the model lists its tool calls.
C4_EvidenceInPriorityOrder ==
    (pc = "DONE" /\ GeneralPath) =>
        \A i, j \in DOMAIN response.citations :
            i < j => Priority(AdapterOf(response.citations[i].title))
                        <= Priority(AdapterOf(response.citations[j].title))

\* C5: on the general path the citations of the returned answer are exactly the
\* evidence returned by the adapters that ran successfully, concatenated in
\* invocation order: nothing fetched is dropped, nothing is added.
C5_CitationsAreAllEvidenceFetched ==
    (pc = "DONE" /\ GeneralPath) => response.citations = Citations(fetched)

RetrySites == {SelectSite, FinalSite, ExecuteFinalSite}

\* where the request stands while the model call of a site is in progress
PcOf(site) ==
    IF site = SelectSite THEN "select"
    ELSE IF site = FinalSite THEN "final"
    ELSE "execute_final"

\* the attempts on record are those of a call made through _retry_openai_call
RetriedCall == llm_calls /= <<>> /\ llm_calls[1].site \in RetrySites

LastOutcome == llm_calls[Len(llm_calls)].outcome

\* another attempt of the call on record is due
AttemptDue == pc = PcOf(llm_calls[1].site) /\ attempt = Len(llm_calls) /\ error = NoError

\* C6: _retry_openai_call makes at most max_retries attempts; a rate-limit
\* failure before the last attempt is followed by another attempt, one on the
\* last attempt is re-raised, a success ends the call with no further attempt,
\* and any other failure propagates at once with no retry.
C6_RetryPolicy ==
    /\ [](RetriedCall =>
            /\ Len(llm_calls) <= max_retries
            /\ \A i \in 1..Len(llm_calls) : llm_calls[i].site = llm_calls[1].site
            /\ \A i \in 1..(Len(llm_calls) - 1) : llm_calls[i].outcome = "RateLimitError"
            /\ (LastOutcome = "RateLimitError" /\ Len(llm_calls) < max_retries) => AttemptDue
            /\ (LastOutcome = "RateLimitError" /\ Len(llm_calls) = max_retries)
                  => (pc = "FAILED" /\ error = RateLimitError)
            /\ LastOutcome = "ok" => pc /= PcOf(llm_calls[1].site)
            /\ LastOutcome \notin {"ok", "RateLimitError"}
                  => (pc = "FAILED" /\ error.type = LastOutcome))
    /\ [][(RetriedCall /\ AttemptDue)
            => (llm_calls' = Append(llm_calls, llm_calls'[Len(llm_calls')])
                /\ llm_calls'[Len(llm_calls')].site = llm_calls[1].site)]_vars

\* a call that succeeds on its last attempt after rate-limit failures
C6_Witness ==
    /\ RetriedCall
    /\ Len(llm_calls) = max_retries
    /\ LastOutcome = "ok"
    /\ llm_calls[1].outcome = "RateLimitError"
    /\ pc = "DONE"

\* C7: every model call made while serving a request (tool selection, final
\* answer, index selection, SQL generation, log sub-action selection) that
\* fails with a rate-limit error is retried before the failure is acted on.
C7_EveryModelCallRetried ==
    (llm_calls /= <<>> /\ LastOutcome = "RateLimitError")
        => \/ Len(llm_calls) = max_retries
           \/ (RetriedCall /\ AttemptDue)

\* C8: a request whose last message starts with ;;SQL;; makes no model call and
\* invokes the relational adapter only, which runs the introspection query over
\* INFORMATION_SCHEMA.COLUMNS and returns an item titled COLUMNS.
C8_SqlCommandBypassesSelection ==
    StartsWith(Last, ";;SQL;;") =>
        /\ llm_calls = <<>>
        /\ pc \in {"received", "DONE", "FAILED"}
        /\ n_tool_calls = 0 /\ tool_calls = <<>>
        /\ \A c \in Range(invoked) : c.name = SQL
        /\ Len(invoked) = (IF pc = "received" THEN 0 ELSE 1)
        /\ pc /= "received" =>
              /\ Len(executed_sql) = 1
              /\ Contains(executed_sql[1], "FROM INFORMATION_SCHEMA.COLUMNS")
        /\ pc = "DONE" =>
              /\ Len(fetched) = 1
              /\ fetched[1].title = "COLUMNS"
              /\ response.content = fetched[1].content
              /\ StartsWith(response.content, ";;COLUMNS;;")
              /\ response.citations = <<>>

\* the ;;SQL;; command answered with the columns of a table
C8_Witness ==
    /\ StartsWith(Last, ";;SQL;;")
    /\ pc = "DONE"
    /\ Contains(response.content, "virtual_machines | name")

\* the mutating keywords the gate is to reject
MutatingKeywords ==
    {"update", "delete", "insert", "merge", "drop", "alter", "create", "truncate"}

HasMutatingKeyword(sql) == \E k \in MutatingKeywords : Contains(Lower(sql), k)

\* C9: _is_safe_sql returns false for every statement whose lower-cased text
\* contains one of update, delete, insert, merge, drop, alter, create, truncate.
C9_MutatingKeywordRejected ==
    (sql_verdict /= "unset" /\ HasMutatingKeyword(sql_text)) => sql_verdict = "False"

\* the identifiers that follow a from or join token, the tokens being the
\* whitespace-separated words of the lower-cased statement
TableOf(word) ==
    LET ident == StripChars(word, "[];,")
    IN  IF StartsWith(ident, "dbo.") THEN SliceFrom(ident, 4) ELSE ident

TablesReferenced(sql) ==
    LET words == SplitWs(Lower(sql))
    IN  { TableOf(words[i + 1]) :
            i \in { k \in 1..(Len(words) - 1) : words[k] \in {"from", "join"} } }

\* C10: for a statement free of forbidden keywords, _is_safe_sql returns false
\* if some identifier following a from or join token (whatever whitespace
\* surrounds the token) is outside the allow-list, and true if all are in it.
C10_OnlyAllowedTablesPass ==
    (sql_verdict /= "unset" /\ ~HasMutatingKeyword(sql_text)) =>
        /\ (\E t \in TablesReferenced(sql_text) : t \notin _allowed_tables)
              => sql_verdict = "False"
        /\ (\A t \in TablesReferenced(sql_text) : t \in _allowed_tables)
              => sql_verdict = "True"

\* C11: in the ;;EXECUTE;; branch of the relational adapter every statement
\* handed to _execute_sql satisfies _is_safe_sql: a generated statement the gate
\* rejects is never executed, the fallback SELECT TOP 50 over
\* dbo.virtual_machines runs in its place, and the gate accepts the fallback.
C11_ExecutedStatementPassesGate ==
    StartsWith(Last, ";;EXECUTE;;") =>
        /\ \A i \in DOMAIN executed_sql : _is_safe_sql(executed_sql[i]) = "True"
        /\ \A g \in GeneratedSql :
              _is_safe_sql(Strip(g)) /= "True"
                  => \A i \in DOMAIN executed_sql : executed_sql[i] /= Strip(g)
        /\ \A i \in DOMAIN executed_sql :
              \/ executed_sql[i] \in { Strip(g) : g \in GeneratedSql }
              \/ executed_sql[i] = FallbackSql
        /\ _is_safe_sql(FallbackSql) = "True"
        /\ StartsWith(FallbackSql, "SELECT TOP 50 ")

\* a rejected statement was generated and the fallback was executed and answered
C11_Witness ==
    /\ StartsWith(Last, ";;EXECUTE;;")
    /\ pc = "DONE"
    /\ executed_sql = <<FallbackSql>>
    /\ Contains(response.citations[1].content, "## SQL Query:\nSELECT TOP 50 name")

\* the request is over inside the endpoint's try block
Served == pc \in {"DONE", "FAILED"}

\* C12: the endpoint returns, for every request, one assistant-role message:
\* the orchestrator's answer when it returned one; when anything raised (an
\* empty messages list included) the service-busy text exactly when the
\* lower-cased error text contains "rate limit", "capacity" or "quota", and
\* otherwise "An error occurred: " followed by the error text.  No error
\* is left unanswered: the step after a failure is the reply.
C12_EndpointAlwaysReplies ==
    /\ [](reply /= NoReply =>
            /\ Served
            /\ reply.role = "assistant"
            /\ pc = "DONE" => (error = NoError /\ reply.content = response.content)
            /\ pc = "FAILED" =>
                  LET busy == \E k \in {"rate limit", "capacity", "quota"} :
                                 Contains(Lower(error.msg), k)
                  IN  /\ busy <=> reply.content = BusyMessage
                      /\ ~busy => reply.content = "An error occurred: " \o error.msg)
    /\ [](Served => error.type /= "None" \/ pc = "DONE")
    /\ [][(Served /\ reply = NoReply) => reply' /= NoReply]_vars
    /\ [][reply /= NoReply => reply' = reply]_vars

\* a rate-limit failure of the orchestrator answered with the service-busy text
C12_Witness ==
    /\ pc = "FAILED"
    /\ error = RateLimitError
    /\ reply = Reply("assistant", BusyMessage, "absent")

AppliedFn(fn) == pc = "applied" /\ arg[1] = fn

\* the keys of a parsed JSON object
HasKey(d, key) == \E i \in 1..Len(d) : d[i][1] = key

\* C13: _select_indexes resolves every malformed model response to all indexes
\* and never to none: unparsable JSON (or a failed call) yields (true, true),
\* and a field missing from a valid JSON object defaults to true.
C13_MalformedSelectsAllIndexes ==
    AppliedFn("_select_indexes") =>
        LET sel == arg[2]
            fields == <<"inventories", "incidents">>
        IN  /\ (~sel.ok \/ ~sel.json.ok) => result[2] = <<TRUE, TRUE>>
            /\ (sel.ok /\ sel.json.ok) =>
                  \A i \in 1..2 : ~HasKey(sel.json.parsed, fields[i]) => result[2][i]
            /\ (sel.ok /\ sel.json.ok /\ \E i \in 1..2 : ~HasKey(sel.json.parsed, fields[i]))
                  => result[2] /= <<FALSE, FALSE>>

AdapterApplied == pc = "applied" /\ arg[1] \in {RAG, SQL, LOG}

\* an ordinary retrieval failure met by the adapter call: a search that failed,
\* a statement whose execution failed, a log query that failed, or the
\* adapter's own selection call failing
RetrievalFailed ==
    \/ /\ arg[1] = RAG
       /\ ~arg[2].fault
       /\ ~arg[2].sel.ok \/ ~arg[2].inv.ok \/ ~arg[2].inc.ok
    \/ /\ arg[1] = SQL
       /\ result[2].sql /= <<>>
       /\ ~arg[2].db.ok
    \/ /\ arg[1] = LOG
       /\ ~arg[2].sel.ok \/ \E i \in DOMAIN arg[2].qs : ~arg[2].qs[i].ok

\* every retrieval the adapter call made failed
NothingRetrieved ==
    \/ arg[1] = RAG /\ ~arg[2].inv.ok /\ ~arg[2].inc.ok
    \/ arg[1] = SQL
    \/ arg[1] = LOG /\ (~arg[2].sel.ok \/ \A i \in DOMAIN arg[2].qs : ~arg[2].qs[i].ok)

\* C14: no adapter raises past its boundary on an ordinary retrieval failure:
\* when the search, the SQL execution, the log query or the adapter's own
\* selection call fails, get_chat_completion returns (an empty evidence list
\* when nothing was retrieved) instead of raising.
C14_AdaptersAbsorbRetrievalFailures ==
    (AdapterApplied /\ RetrievalFailed) =>
        /\ ~result[2].raised
        /\ NothingRetrieved => result[2].items = <<>>

\* the lines of a rendering that hold a row's cells (rows are rendered with
\* their number in the first cell)
RowShown(k, text, row) == Contains(text, row[1][2])

RowsLeftOut(text, rows) == \E k \in DOMAIN rows : ~RowShown(k, text, rows[k])

\* C15: _rows_to_sources keeps its output within the character budget
\* max_chars for every row list, and whenever rows are left out the output
\* carries a truncation marker.
C15_RowsRenderingCapped ==
    (pc = "applied" /\ arg[1] \in {"_rows_to_sources", "_rows_to_sources_auto"}) =>
        /\ Len(result[2]) <= rows_max_chars
        /\ RowsLeftOut(result[2], arg[2]) => Contains(result[2], "truncated")

\* C16: rows_to_markdown_table renders at most 50 data rows and at most 12
\* columns (those of the first row), appends a "(truncated: ...)" annotation if
\* and only if a limit was hit, reporting exactly len(columns) - 12 hidden
\* columns and len(rows) - 50 hidden rows, and renders no rows as "(no rows)".
C16_MarkdownTableBounded ==
    AppliedFn("rows_to_markdown_table") =>
        LET rows == arg[2]
            text == result[2]
            lines == Split(text, "\n")
            ncols == Len(rows[1])
            hit == Len(rows) > max_rows \/ ncols > max_cols
            last == lines[Len(lines)]
            data == SubSeq(lines, 3, IF hit THEN Len(lines) - 2 ELSE Len(lines))
            shown == Split(lines[1], " | ")
        IN  IF rows = <<>> THEN text = "(no rows)"
            ELSE /\ Len(shown) <= max_cols
                 /\ shown = SubSeq(RowKeys(rows[1]), 1, Min(ncols, max_cols))
                 /\ Len(data) <= max_rows
                 /\ Len(data) = Min(Len(rows), max_rows)
                 /\ \A k \in DOMAIN data :
                       Split(data[k], " | ") = [i \in 1..Len(shown) |-> rows[k][i][2]]
                 /\ hit <=> Contains(text, "(truncated: ")
                 /\ hit => /\ lines[Len(lines) - 1] = ""
                           /\ StartsWith(last, "(truncated: ")
                           /\ SubSeq(last, Len(last), Len(last)) = ")"
                 /\ IF ncols > max_cols
                    THEN Contains(last, "columns " \o Str(ncols - max_cols) \o " more hidden")
                    ELSE ~Contains(text, "columns ")
                 /\ IF Len(rows) > max_rows
                    THEN Contains(last, "rows " \o Str(Len(rows) - max_rows) \o " more hidden")
                    ELSE ~Contains(text, "rows ")

\* a table with both limits exceeded
C16_Witness ==
    /\ AppliedFn("rows_to_markdown_table")
    /\ Len(arg[2]) = max_rows + 2
    /\ Len(arg[2][1]) = max_cols + 1
    /\ Contains(result[2], "\n\n(truncated: columns 1 more hidden; rows 2 more hidden)")

\* the log adapter was applied to a selection answer naming these functions
LogCalls == arg[2].sel.tool_calls

Advertised(fname) == \E i \in 1..Len(LogToolNames) : LogToolNames[i] = fname

\* C17: for every sub-action name advertised in the tool schema of the log
\* adapter, a tool call with that name runs the matching query and appends one
\* evidence item for it (none when the query fails, which is logged).
C17_AdvertisedSubActionRuns ==
    (AppliedFn(LOG) /\ arg[2].sel.ok /\ Len(LogCalls) = 1 /\ Advertised(LogCalls[1])) =>
        /\ ~result[2].raised
        /\ Len(result[2].items) = (IF arg[2].qs[1].ok THEN 1 ELSE 0)
        /\ \A i \in DOMAIN result[2].items :
              StartsWith(result[2].items[i].title, "Log Analytics (")

\* the answer of a log query that succeeds with one row
OneRow == [ok |-> TRUE, nrows |-> 1, ncols |-> 2]

\* the evidence of all sub-actions, each query answering with one row
AllSubActions ==
    LogLoop([i \in 1..Len(LogBranches) |-> LogBranches[i][1]],
            [i \in 1..Len(LogBranches) |-> OneRow])

\* the selection answer is unusable: the call raised, or it names no known function
SelectionUnusable ==
    \/ ~arg[2].sel.ok
    \/ \A i \in DOMAIN LogCalls :
          ~Advertised(LogCalls[i]) /\ \A b \in 1..Len(LogBranches) : LogBranches[b][1] /= LogCalls[i]

\* C18: the sub-action selection of the log adapter is fail-open: when the
\* selection call raises or returns unusable output the adapter runs all
\* sub-actions rather than none, and does not raise.
C18_LogSelectionFailOpen ==
    (AppliedFn(LOG) /\ SelectionUnusable) =>
        /\ ~result[2].raised
        /\ result[2].items = AllSubActions

\* the evidence the grounding prompt of the request is composed from
PromptEvidence == IF GeneralPath THEN sources_parts ELSE citations

TruncationMarker == "\n\n... (truncated)"

\* C19: in every path that composes a grounded answer, the general path and
\* the ;;EXECUTE;; path, the sources block put into the grounding prompt is
\* the joined evidence cut to max_chars characters, with the marker appended
\* whenever it was cut.
C19_SourcesBlockTruncated ==
    prompt_sources /= "" =>
        LET joined == SourcesJoined(PromptEvidence)
        IN  IF Len(joined) <= max_chars
            THEN prompt_sources = joined
            ELSE prompt_sources = SubSeq(joined, 1, max_chars) \o TruncationMarker


\* C20: when two requests are served concurrently through the shared singleton
\* services, under every interleaving of their steps at the awaits, the
\* evidence list of each request is exactly the evidence fetched for that
\* request, and its citations hold only evidence fetched for it.
C20_RequestsIsolated ==
    pc = "concurrent" =>
        \A r \in Requests :
            /\ InFlight(r) => frames[r].sources_parts = frames[r].fetched
            /\ Range(frames[r].citations) \subseteq Range(frames[r].fetched)
            /\ (frames[r].pc = "DONE" /\ frames[r].n_tool_calls = 0) =>
                   frames[r].citations = Citations(frames[r].fetched)

\* both requests answered from evidence of their own, their steps interleaved
C20_Witness ==
    /\ pc = "concurrent"
    /\ \A r \in Requests :
          /\ frames[r].pc = "DONE"
          /\ frames[r].overlapped
          /\ frames[r].citations /= <<>>
    /\ Range(frames[1].fetched) \cap Range(frames[2].fetched) = {}

\* C21: every blocking call to a backing store made while serving a request
\* (SQL execution, document search, log query) runs on a worker thread, so
\* that while one request waits on such a call the event loop can still run
\* steps of the other request.
C21_StoreCallsOffloaded ==
    pc = "concurrent" =>
        \A r \in Requests :
            StoreCall(r) => /\ StoreThread(frames[r].pc) = "worker"
                            /\ \A o \in Requests \ {r} : CanRun(o)

\* the stages of a request, in the order they are gone through
Stage(at) ==
    CASE at = "received" -> 0
      [] at = "select" -> 1
      [] at = "tools" -> 2
      [] at \in {"final", "execute_final"} -> 3
      [] OTHER -> 4

\* C22: every external call eventually returning or raising, every request
\* eventually reaches a terminal state, DONE or FAILED; on the general path
\* its stages occur in the order selection, retrieval, composition, and the
\* final model call is issued only after every tool call dispatched from the
\* selection answer has finished.
C22_RequestTerminatesInOrder ==
    /\ <>Terminal
    /\ [][Stage(pc') >= Stage(pc)]_vars
    /\ [][(GeneralPath /\ pc' = "final" /\ pc /= "final") =>
             /\ pc \in {"select", "tools"}
             /\ Len(tool_calls') = n_tool_calls'
             /\ Len(invoked') = n_tool_calls']_vars
    /\ [](GeneralPath /\ pc = "final" => Len(tool_calls) = n_tool_calls)

\* a request answered after two retrieval tool calls
C22_Witness ==
    /\ GeneralPath
    /\ pc = "DONE"
    /\ n_tool_calls >= 2
    /\ Len(invoked) = n_tool_calls
    /\ prompt_sources /= ""

\* the messages of the history older than the recency window
OutOfWindow == { history[i].content : i \in 1..(Len(history) - keep_last) }

\* C23: for every history longer than the recency window, every prompt and
\* every adapter query built for the request uses only messages inside the
\* window, the last keep_last messages: no older message is read on any path,
\* the ;;EXECUTE;; path that reads the fifth message from the end included.
C23_NoOutOfWindowRead ==
    Len(history) > keep_last =>
        \A p \in prompts : \A i \in DOMAIN p.messages : \A old \in OutOfWindow :
            ~Contains(p.messages[i], old)

\* an ;;EXECUTE;; request with a history longer than the window was answered
\* from the fifth message from the end
C23_Witness ==
    /\ Len(history) > keep_last
    /\ StartsWith(Last, ";;EXECUTE;;")
    /\ Prompt(ExecuteFinalSite, <<FromEnd(history, 5).content>>) \in prompts
    /\ pc = "DONE"

\* the titles of a list of evidence items
Titles(items) == [i \in 1..Len(items) |-> items[i].title]

\* how many of the first k documents of an index have content
NonEmptyAmong(index, k) == Cardinality({ i \in 1..Min(k, Len(index)) : index[i] /= "" })

\* C24: the document-search adapter returns at most 1 evidence item labelled
\* Inventories and at most top_k items labelled Incident, one per matching
\* document with non-empty content, all inventory items before all incident
\* items; a failed search on one index gives no item for that index and does
\* not prevent the search on the other index.
C24_DocumentSearchEvidence ==
    (AppliedFn(RAG) /\ ~result[2].raised) =>
        LET items == result[2].items
            chosen == _select_indexes(arg[2].sel)
            inv == { i \in DOMAIN items : items[i].title = "Inventories" }
            inc == { i \in DOMAIN items : items[i].title = "Incident" }
        IN  /\ inv \cup inc = DOMAIN items
            /\ Cardinality(inv) <= 1
            /\ Cardinality(inc) <= top_k
            /\ \A i \in inv : \A j \in inc : i < j
            /\ \A i \in DOMAIN items : items[i].content /= ""
            /\ Cardinality(inv) = IF chosen[1] /\ arg[2].inv.ok
                                  THEN NonEmptyAmong(InventoriesIndex, Min(arg[2].inv.n, 1))
                                  ELSE 0
            /\ Cardinality(inc) = IF chosen[2] /\ arg[2].inc.ok
                                  THEN NonEmptyAmong(IncidentsIndex, Min(arg[2].inc.n, top_k))
                                  ELSE 0

\* the inventories search failed and the incidents search found more than
\* top_k documents, one of them without content
C24_Witness ==
    /\ AppliedFn(RAG)
    /\ ~result[2].raised
    /\ ~arg[2].inv.ok
    /\ arg[2].inc.ok /\ arg[2].inc.n > top_k
    /\ Titles(result[2].items) = <<"Incident", "Incident">>

\* the attempts on record that failed on a rate limit before the last attempt
RateLimitedBeforeLast ==
    { i \in 1..Len(llm_calls) : llm_calls[i].outcome = "RateLimitError" /\ i < max_retries }

\* C25: in _retry_openai_call with base_delay 1.5 s and max_retries 3 the wait
\* before attempt k+1 is base_delay * 2^(k-1), 1.5 s then 3.0 s (in
\* milliseconds here); a wait happens only between two attempts, never after
\* the last attempt, after a success or after another error, so a call sleeps
\* at most max_retries - 1 times.
C25_BackoffDelays ==
    RetriedCall =>
        /\ Len(sleeps) <= max_retries - 1
        /\ sleeps = SubSeq(<<1500, 3000>>, 1, Len(sleeps))
        /\ \A k \in DOMAIN sleeps : 2 * sleeps[k] = 3000 * Pow2(k - 1)
        /\ Len(sleeps) = Cardinality(RateLimitedBeforeLast)

\* a call that met the rate limit on all its attempts: two waits, none after
\* the last
C25_Witness ==
    /\ RetriedCall
    /\ Len(llm_calls) = max_retries
    /\ LastOutcome = "RateLimitError"
    /\ sleeps = <<1500, 3000>>
    /\ pc = "FAILED"

\* C26: _is_safe_sql is a total pure function: for every input string, the
\* empty string and statements ending right after a from or join token
\* included, it returns a boolean and never raises, and it returns the same
\* result for the same input.
C26_GateIsTotal ==
    (pc = "gate" /\ sql_verdict /= "unset") =>
        /\ sql_verdict \in {"True", "False"}
        /\ sql_verdict = _is_safe_sql(sql_text)

\* the tool calls taken so far whose arguments are not valid JSON
MalformedTaken == { i \in DOMAIN tool_calls : ~JsonLoadsOk(tool_calls[i].arguments) }

\* C27: a tool call whose arguments string is not valid JSON is absorbed where
\* the adapters are invoked, like an adapter failure: it adds no evidence, the
\* other tool calls are still dispatched, and the request still comes to a
\* final answer.
C27_MalformedToolCallAbsorbed ==
    (GeneralPath /\ MalformedTaken /= {}) =>
        /\ error /= JSONDecodeError
        /\ pc = "FAILED" => error \in LlmErrors
        /\ pc \in {"tools", "final", "DONE", "FAILED"}
        /\ (pc = "tools") <=> (Len(tool_calls) < n_tool_calls)

\* the request is an ;;EXECUTE;; command that has left the entry of the handler
ExecutePath == StartsWith(Last, ";;EXECUTE;;") /\ pc /= "received"

\* the prompts and queries of the request built at a site
PromptsAt(site) == { p \in prompts : p.site = site }

\* C28: an ;;EXECUTE;; command takes as the user's question the fifth message
\* from the end of the history, the question that opened the interactive flow:
\* the SQL generation prompt and the grounding prompt are built from it and
\* from no other message; with fewer than five messages the request ends
\* FAILED and no SQL is generated or executed.
C28_ExecuteUsesOriginalQuestion ==
    ExecutePath =>
        IF Len(history) < 5
        THEN /\ pc = "FAILED"
             /\ error = IndexError
             /\ invoked = <<>>
             /\ executed_sql = <<>>
             /\ llm_calls = <<>>
             /\ prompts = {}
        ELSE /\ PromptsAt(GenerateSqlSite)
                    = {Prompt(GenerateSqlSite, <<history[Len(history) - 4].content>>)}
             /\ PromptsAt(ExecuteFinalSite)
                    = {Prompt(ExecuteFinalSite, <<history[Len(history) - 4].content>>)}
             /\ PromptsAt(SQL)
                    = {Prompt(SQL, <<Last \o "|||" \o history[Len(history) - 4].content>>)}

\* an ;;EXECUTE;; command closing a five-message flow was answered from SQL
\* that was generated and executed for the question that opened the flow
C28_Witness ==
    /\ ExecutePath
    /\ Len(history) = 5
    /\ history[1].role = "user"
    /\ Prompt(GenerateSqlSite, <<history[1].content>>) \in prompts
    /\ executed_sql /= <<>>
    /\ pc = "DONE"

\* the adapter invocations of the request that were relational and returned
SqlSucceeded == { i \in DOMAIN invoked : invoked[i].name = SQL /\ ~invoked[i].raised }

\* C29: on the general path, once a relational tool call has succeeded the
\* request is over: it returned at that tool call with the first item of the
\* relational adapter as its content and with no citations, no later tool
\* call was dispatched, no final model call was made, and the evidence the
\* earlier tool calls gathered is not part of the response.
C29_RelationalToolCallReturns ==
    (GeneralPath /\ SqlSucceeded /= {}) =>
        /\ pc = "DONE"
        /\ SqlSucceeded = {Len(invoked)}
        /\ Len(tool_calls) = Len(invoked)
        /\ tool_calls[Len(tool_calls)].name = SQL
        /\ response.content = fetched[Len(fetched)].content
        /\ response.citations = <<>>
        /\ citations = <<>>
        /\ prompt_sources = ""
        /\ PromptsAt(FinalSite) = {}
        /\ \A i \in DOMAIN llm_calls : llm_calls[i].site /= FinalSite

\* a relational tool call succeeded after an earlier tool call had gathered
\* evidence and while a later tool call was still to be dispatched
C29_Witness ==
    /\ GeneralPath
    /\ SqlSucceeded /= {}
    /\ sources_parts /= <<>>
    /\ Len(tool_calls) < n_tool_calls
    /\ response.content = fetched[Len(fetched)].content
    /\ pc = "DONE"

\* the request came in through the instrumented application's endpoint with a
\* non-empty messages list and has left the endpoint's first statement
InstrumentedRequest == entry = "app.main" /\ history /= <<>> /\ pc /= "endpoint"

\* C30: the endpoint of the instrumented application hands the messages and
\* the conversation id to DecideTool.get_chat_completion: the orchestrator
\* runs for every request with a non-empty messages list, its response is
\* returned unchanged when it succeeds, and the error message is returned only
\* when the orchestrator itself raised.
C30_InstrumentedEndpointDelegates ==
    InstrumentedRequest =>
        /\ error /= AttributeError
        /\ (reply /= NoReply /\ pc = "DONE") => reply.content = response.content
        /\ (reply /= NoReply /\ pc = "FAILED") =>
               (llm_calls /= <<>> \/ invoked /= <<>> \/ error = IndexError)

====
